---- MODULE Spec2Model ----
(***************************************************************************)
(* Model of the US News crawler's download orchestration:                  *)
(*   usnews_scraper/html_downloader.py  (HTMLDownloader)                   *)
(*   usnews_scraper/selenium_base.py    (SeleniumBase)                     *)
(*   usnews_scraper/selenium/*.py       (navigation, health check, ...)    *)
(*   main_scraper.py, main.py           (the two batch drivers)            *)
(*                                                                         *)
(* Strings are sequences of one-character strings, so that replace, lower, *)
(* split and substring search are computed rather than assumed.  An HTML   *)
(* document is a sequence of tokens; a token is a tuple <<"t", text>> or a *)
(* canonical link <<"canon", host, path>>.                                 *)
(***************************************************************************)
EXTENDS Integers, Sequences, FiniteSets, TLC

(* ---------------------------------------------------------------------- *)
(* Bounds of the model                                                     *)
(* ---------------------------------------------------------------------- *)
\* environment faults (timeouts, failed starts, failed writes ...) per behaviour
MaxFaults == 1

(* ---------------------------------------------------------------------- *)
(* Generic string helpers                                                  *)
(* ---------------------------------------------------------------------- *)
Range(s) == { s[i] : i \in DOMAIN s }

\* str.find(sub): 0-based index of the first occurrence, -1 when absent
Find(s, sub) ==
  LET hits == { i \in 1..(Len(s) - Len(sub) + 1) : SubSeq(s, i, i + Len(sub) - 1) = sub }
  IN IF hits = {} THEN -1 ELSE (CHOOSE i \in hits : \A j \in hits : i <= j) - 1

\* "sub in s"
Contains(s, sub) == Find(s, sub) # -1

\* str.startswith
StartsWith(s, pre) == Len(s) >= Len(pre) /\ SubSeq(s, 1, Len(pre)) = pre

RECURSIVE FlatMap(_, _)
\* concatenation of f[c] over the characters c of s; characters outside
\* DOMAIN f are kept as they are
FlatMap(s, f) ==
  IF s = <<>> THEN <<>>
  ELSE (IF Head(s) \in DOMAIN f THEN f[Head(s)] ELSE <<Head(s)>>) \o FlatMap(Tail(s), f)

RECURSIVE Filter(_, _)
Filter(s, keep) ==
  IF s = <<>> THEN <<>>
  ELSE (IF Head(s) \in keep THEN <<Head(s)>> ELSE <<>>) \o Filter(Tail(s), keep)

RECURSIVE Split(_, _)
\* str.split(sep) for a one-character separator: always at least one piece
Split(s, sep) ==
  LET i == Find(s, <<sep>>)
  IN IF i = -1 THEN <<s>>
     ELSE <<SubSeq(s, 1, i)>> \o Split(SubSeq(s, i + 2, Len(s)), sep)

RECURSIVE StripChar(_, _)
\* str.strip(c)
StripChar(s, c) ==
  IF s # <<>> /\ Head(s) = c THEN StripChar(Tail(s), c)
  ELSE IF s # <<>> /\ s[Len(s)] = c THEN StripChar(SubSeq(s, 1, Len(s) - 1), c)
  ELSE s

UpperChars == <<"A","B","C","D","E","F","G","H","I","J","K","L","M",
                "N","O","P","Q","R","S","T","U","V","W","X","Y","Z">>
LowerChars == <<"a","b","c","d","e","f","g","h","i","j","k","l","m",
                "n","o","p","q","r","s","t","u","v","w","x","y","z">>
DigitChars == <<"0","1","2","3","4","5","6","7","8","9">>

\* str.isalnum() on one character
IsAlnum(c) == c \in Range(UpperChars) \cup Range(LowerChars) \cup Range(DigitChars)

\* str.lower()
Lower(s) ==
  [ i \in DOMAIN s |->
      IF s[i] \in Range(UpperChars)
      THEN LowerChars[CHOOSE k \in DOMAIN UpperChars : UpperChars[k] = s[i]]
      ELSE s[i] ]

\* str.replace(a, b) for a one-character a
Replace(s, a, b) == FlatMap(s, [ c \in {a} |-> b ])

(* ---------------------------------------------------------------------- *)
(* html_downloader.py: module constants                                    *)
(* ---------------------------------------------------------------------- *)
PAGE_TYPES ==
  << <<>>,
     <<"o","v","e","r","a","l","l","-","r","a","n","k","i","n","g","s">>,
     <<"a","p","p","l","y","i","n","g">>,
     <<"p","a","y","i","n","g">>,
     <<"a","c","a","d","e","m","i","c","s">>,
     <<"s","t","u","d","e","n","t","-","l","i","f","e">>,
     <<"c","a","m","p","u","s","-","i","n","f","o">> >>

\* the origin of BASE_URL, kept apart from the path
BASE_URL == [scheme |-> "https", host |-> "premium.usnews.com", path |-> <<>>]

\* DownloaderConfig.downloads_dir
downloads_dir == <<"d","o","w","n","l","o","a","d","s">>

\* the empty string as a current_url value
EmptyUrl == [scheme |-> "", host |-> "", path |-> <<>>]

\* Python None where an HTML string is expected: a document no page can be
HtmlNone == << <<"None">> >>

\* Python None where a name is expected (a JSON null in the catalog)
NoneStr == << "<None>" >>

\* Python None as a status code
NoStatus == -1

\* Python None as the result of _find_widget_cut_index
NoIndex == -1

\* "not html_content"
Falsy(html) == html = HtmlNone \/ html = <<>>

(* ---------------------------------------------------------------------- *)
(* html_downloader.py: pure helpers                                        *)
(* ---------------------------------------------------------------------- *)
RECURSIVE FirstMatch_mut(_, _, _)
\* fault injection: a lookup loop that compares the catalog names as written
FirstMatch_mut(universities, needle, i) ==
  IF i > Len(universities) THEN [k |-> "none"]
  ELSE IF universities[i].name = NoneStr THEN [k |-> "raise"]
  ELSE IF Contains(universities[i].name, needle)
       THEN [k |-> "found", name |-> universities[i].name, link |-> universities[i].link]
  ELSE FirstMatch_mut(universities, needle, i + 1)

RECURSIVE FirstMatch(_, _, _)
\* the loop of find_university_by_name from entry i on
FirstMatch(universities, needle, i) ==
  IF i > Len(universities) THEN [k |-> "none"]
  ELSE IF universities[i].name = NoneStr THEN [k |-> "raise"]
  ELSE IF Contains(Lower(universities[i].name), needle)
       THEN [k |-> "found", name |-> universities[i].name, link |-> universities[i].link]
  ELSE FirstMatch(universities, needle, i + 1)

\* fault injection: a lookup that falls back on the first catalog entry when
\* no name matches
find_university_by_name_mut(universities, university_name) ==
  IF university_name = NoneStr THEN [k |-> "raise"]
  ELSE IF FirstMatch(universities, Lower(university_name), 1).k = "none"
          /\ universities # <<>> /\ universities[1].name # NoneStr
       THEN [k |-> "found", name |-> universities[1].name, link |-> universities[1].link]
  ELSE FirstMatch(universities, Lower(university_name), 1)

\* HTMLDownloader.find_university_by_name: [k |-> "found", name, link],
\* [k |-> "none"] for None, [k |-> "raise"] when .lower() is applied to None
find_university_by_name(universities, university_name) ==
  IF university_name = NoneStr THEN [k |-> "raise"]
  ELSE FirstMatch(universities, Lower(university_name), 1)

\* HTMLDownloader.list_all_universities
list_all_universities(universities) ==
  [ i \in DOMAIN universities |-> universities[i].name ]

\* the part of a URL path before any "?" or "#"
CutQuery(rest) ==
  IF \A i \in DOMAIN rest : rest[i] \notin {"?", "#"} THEN rest
  ELSE SubSeq(rest, 1, (CHOOSE i \in DOMAIN rest :
                          /\ rest[i] \in {"?", "#"}
                          /\ \A j \in 1..(i - 1) : rest[j] \notin {"?", "#"}) - 1)

\* what follows the authority of a URL whose scheme has been removed
AfterAuthority(afterScheme) ==
  IF Find(afterScheme, <<"/">>) = -1 THEN <<>>
  ELSE SubSeq(afterScheme, Find(afterScheme, <<"/">>) + 1, Len(afterScheme))

\* urlparse(link).path for a link that contains "://"
UrlParsePath(link) ==
  CutQuery(AfterAuthority(SubSeq(link, Find(link, <<":","/","/">>) + 4, Len(link))))

\* fault injection: a URL builder that puts "/" + page_type behind the path
\* also for the main page
construct_url_from_link_mut(link, page_type) ==
  LET pt == StripChar(page_type, "/")
      path0 == IF Contains(link, <<":","/","/">>) THEN UrlParsePath(link) ELSE link
      path == IF StartsWith(path0, <<"/">>) THEN path0 ELSE <<"/">> \o path0
  IN IF link = <<>> THEN BASE_URL
     ELSE [BASE_URL EXCEPT !.path = path \o <<"/">> \o pt]

\* HTMLDownloader.construct_url_from_link: the URL as origin + path
construct_url_from_link(link, page_type) ==
  LET pt == StripChar(page_type, "/")
      path0 == IF Contains(link, <<":","/","/">>) THEN UrlParsePath(link) ELSE link
      path == IF StartsWith(path0, <<"/">>) THEN path0 ELSE <<"/">> \o path0
  IN IF link = <<>> THEN BASE_URL
     ELSE IF pt = <<>> THEN [BASE_URL EXCEPT !.path = path]
     ELSE [BASE_URL EXCEPT !.path = path \o <<"/">> \o pt]

\* fault injection: a slug that drops the unsafe characters before it
\* rewrites spaces and ampersands
_slugify_name_mut(name) ==
  LET kept == Filter(name, { c \in Range(name) : IsAlnum(c) \/ c \in {"_", "-"} })
  IN FlatMap(kept, [ c \in {" ", "&", ",", "."} |->
                      CASE c = " " -> <<"_">>
                        [] c = "&" -> <<"a","n","d">>
                        [] OTHER   -> <<>> ])

\* HTMLDownloader._slugify_name
_slugify_name(name) ==
  LET normalized == FlatMap(name, [ c \in {" ", "&", ",", "."} |->
                      CASE c = " " -> <<"_">>
                        [] c = "&" -> <<"a","n","d">>
                        [] OTHER   -> <<>> ])
  IN Filter(normalized, { c \in Range(normalized) : IsAlnum(c) \/ c \in {"_", "-"} })

\* os.path.join(a, b)
PathJoin(a, b) ==
  IF StartsWith(b, <<"/">>) THEN b
  ELSE IF a = <<>> \/ a[Len(a)] = "/" THEN a \o b
  ELSE a \o <<"/">> \o b

\* fault injection: a file name built from the first letter of the page
\* type only
generate_filename_and_path_mut(university_name, page_type) ==
  <<PathJoin(downloads_dir, _slugify_name(university_name)),
    IF page_type = <<>> THEN <<"m","a","i","n",".","h","t","m","l">>
    ELSE <<Head(page_type)>> \o <<".","h","t","m","l">> >>

\* HTMLDownloader.generate_filename_and_path: <<directory, filename>>
generate_filename_and_path(university_name, page_type) ==
  LET university_dir == PathJoin(downloads_dir, _slugify_name(university_name))
      filename == IF page_type = <<>> THEN <<"m","a","i","n",".","h","t","m","l">>
                  ELSE Replace(page_type, "-", <<"_">>) \o <<".","h","t","m","l">>
  IN <<university_dir, filename>>

\* os.path.join(university_dir, filename) as computed in _save_html
FilePath(university_name, page_type) ==
  LET df == generate_filename_and_path(university_name, page_type)
  IN PathJoin(df[1], df[2])

\* fault injection: a suffix test for '.htm' files only
EndsWithHtml_mut(f) ==
  Len(f) >= 4 /\ SubSeq(f, Len(f) - 3, Len(f)) = <<".","h","t","m">>

\* f.endswith('.html') on a path or file name
EndsWithHtml(f) ==
  Len(f) >= 5 /\ SubSeq(f, Len(f) - 4, Len(f)) = <<".","h","t","m","l">>

\* os.path.dirname of a path
DirName(path) ==
  LET slashes == { i \in DOMAIN path : path[i] = "/" }
  IN IF slashes = {} THEN <<>>
     ELSE SubSeq(path, 1, (CHOOSE i \in slashes : \A j \in slashes : j <= i) - 1)

\* _ends_with_segment inside _redirected_to_main
_ends_with_segment(url_path, segment) ==
  LET segs == SelectSeq(Split(url_path, "/"), LAMBDA s : s # <<>>)
  IN Len(segs) > 0 /\ segs[Len(segs)] = segment

\* CANONICAL_RE.search(html): the first canonical link token, or NoneVal
CanonicalSearch(html) ==
  LET hits == { i \in DOMAIN html : html[i][1] = "canon" }
  IN IF hits = {} THEN <<"None">>
     ELSE html[CHOOSE i \in hits : \A j \in hits : i <= j]

\* fault injection: a redirect test in which the canonical link is consulted
\* only when there is no current URL
_redirected_to_main_mut(current_url_value, html_text, expected_page_type) ==
  IF expected_page_type = <<>> THEN FALSE
  ELSE IF current_url_value # EmptyUrl
       THEN ~_ends_with_segment(current_url_value.path, expected_page_type)
  ELSE CanonicalSearch(html_text) # <<"None">>
       /\ ~_ends_with_segment(CanonicalSearch(html_text)[3], expected_page_type)

\* download_university_page._redirected_to_main
_redirected_to_main(current_url_value, html_text, expected_page_type) ==
  IF expected_page_type = <<>> THEN FALSE
  ELSE IF current_url_value # EmptyUrl
          /\ ~_ends_with_segment(current_url_value.path, expected_page_type) THEN TRUE
  ELSE LET canonical_match_local == CanonicalSearch(html_text)
       IN canonical_match_local # <<"None">>
          /\ ~_ends_with_segment(canonical_match_local[3], expected_page_type)

(* ---------------------------------------------------------------------- *)
(* selenium/config.py and selenium/navigation.py: response classification  *)
(* ---------------------------------------------------------------------- *)
PERMANENT_STATUS_CODES == {404, 410}
RETRY_POSSIBLE_CODES == {408, 429}

EdgeHost == "errors.edgesuite.net"

\* any(indicator in current_url for indicator in NETWORK_ERROR_URL_INDICATORS)
IsNetworkErrorUrl(url) ==
  \/ url.scheme = "chrome-error"
  \/ url.scheme = "chrome" /\ url.host = "network-error"

\* "errors.edgesuite.net" in page_source or "Reference #" in page_source;
\* a page_source of None makes the test throw, which the code passes over
BodyHasEdgeMarker(page_source) ==
  /\ page_source # HtmlNone
  /\ \E i \in DOMAIN page_source :
        page_source[i] \in { <<"t", EdgeHost>>, <<"t", "Reference #">> }

\* NavigationManager.get_error_info: status_code is what
\* get_response_status_code returned, the other two are read from the driver
get_error_info(has_driver, status_code, current_url, page_source) ==
  IF ~has_driver THEN [status |-> NoStatus, type |-> "network_no_driver"]
  ELSE IF current_url.host = EdgeHost THEN [status |-> status_code, type |-> "akamai_cdn"]
  ELSE IF BodyHasEdgeMarker(page_source) THEN [status |-> status_code, type |-> "akamai_cdn"]
  ELSE IF status_code = NoStatus \/ status_code = 0
       THEN IF IsNetworkErrorUrl(current_url)
            THEN [status |-> status_code, type |-> "network_connect_failed"]
            ELSE [status |-> status_code, type |-> "network_error"]
  ELSE IF status_code = 404 THEN [status |-> status_code, type |-> "not_found_404"]
  ELSE IF status_code = 403 THEN [status |-> status_code, type |-> "forbidden_403"]
  ELSE IF status_code = 401 THEN [status |-> status_code, type |-> "auth_required_401"]
  ELSE IF status_code = 500 THEN [status |-> status_code, type |-> "server_internal_500"]
  ELSE IF status_code = 502 THEN [status |-> status_code, type |-> "gateway_502"]
  ELSE IF status_code = 503 THEN [status |-> status_code, type |-> "unavailable_503"]
  ELSE IF 400 <= status_code /\ status_code < 500
       THEN [status |-> status_code, type |-> "client_error"]
  ELSE IF status_code >= 500 THEN [status |-> status_code, type |-> "server_error"]
  ELSE [status |-> status_code, type |-> "None"]

\* NavigationManager.is_error_response, on the info it has just computed
is_error_response(info) ==
  IF info.status = NoStatus THEN info.type # "None"
  ELSE info.status = 0 \/ info.status >= 400

\* fault injection: a permanence test that knows the status lists only
is_permanent_error_mut(info) == info.status \in PERMANENT_STATUS_CODES

\* NavigationManager.is_permanent_error, on the info it has just computed
is_permanent_error(info) ==
  IF info.type = "akamai_cdn" THEN TRUE
  ELSE IF info.status \in PERMANENT_STATUS_CODES THEN TRUE
  ELSE IF info.status # NoStatus /\ 400 <= info.status /\ info.status < 500
       THEN info.status \notin RETRY_POSSIBLE_CODES
  ELSE FALSE

(* ---------------------------------------------------------------------- *)
(* html_downloader.py: widget truncation, login check, content hash        *)
(* ---------------------------------------------------------------------- *)
WidgetMarkers ==
  << << <<"t","<div ">>, <<"t","id=">>, <<"t","blueshift-recommendations-widget">> >>,
     << <<"t","id=">>, <<"t","blueshift-recommendations-widget">> >>,
     << <<"t","blueshift-recommendations-widget">> >>,
     << <<"t","<div ">>, <<"t","id=">>, <<"t","null-recommendations-widget">> >>,
     << <<"t","id=">>, <<"t","null-recommendations-widget">> >>,
     << <<"t","null-recommendations-widget">> >>,
     << <<"t","SailthruRecommend__Container">> >> >>

RECURSIVE EarliestFrom(_, _, _)
\* the loop of _find_widget_cut_index from marker i on
EarliestFrom(html_content, i, earliest_index) ==
  IF i > Len(WidgetMarkers) THEN earliest_index
  ELSE LET idx == Find(html_content, WidgetMarkers[i])
       IN EarliestFrom(html_content, i + 1,
            IF idx # -1 /\ (earliest_index = NoIndex \/ idx < earliest_index)
            THEN idx ELSE earliest_index)

\* HTMLDownloader._find_widget_cut_index
_find_widget_cut_index(html_content) == EarliestFrom(html_content, 1, NoIndex)

TruncationComment == <<"t", "<!-- Truncated before recommendations widget -->">>

\* lines 471-483: the widget removal step; on None the search throws and the
\* original value is kept
TruncateAtWidget(truncate_at_widget, html_content) ==
  IF ~truncate_at_widget \/ html_content = HtmlNone THEN html_content
  ELSE LET cut_index == _find_widget_cut_index(html_content)
       IN IF cut_index # NoIndex /\ cut_index > 0
          THEN SubSeq(html_content, 1, cut_index) \o <<TruncationComment>>
          ELSE html_content

\* HTMLDownloader._check_login_status
_check_login_status(html_content) ==
  LET canonical_match == CanonicalSearch(html_content)
      has(texts) == \E i \in DOMAIN html_content : \E x \in texts : html_content[i] = <<"t", x>>
  IN IF canonical_match # <<"None">> /\ canonical_match[2] = "premium.usnews.com" THEN TRUE
     ELSE IF canonical_match # <<"None">> /\ canonical_match[2] = "www.usnews.com" THEN FALSE
     ELSE IF has({"Sign out", "Log out"}) THEN TRUE
     ELSE FALSE

\* fault injection: a content hash that is never available, so that no
\* content is ever recognised as already saved
ContentHash_mut(html_text) == <<"None">>

\* hashlib.sha256(html_text.encode('utf-8')).hexdigest(), or None when the
\* encoding throws
ContentHash(html_text) ==
  IF html_text = HtmlNone THEN <<"None">> ELSE <<"sha256", html_text>>

(* ---------------------------------------------------------------------- *)
(* The environment: catalog file, batch entry points, the remote site      *)
(* ---------------------------------------------------------------------- *)
NameA == <<"A", " ", "&", " ", "b">>
NameB == <<"b", ".", "C">>
NameShort == <<"b">>
LinkA == <<"/","c","/","a","-","1">>
LinkB == <<"/","c","/","b","-","2">>
LinkC == <<"/","c","/","c","-","3">>

\* contents of data/universities.json the model is run on: two distinct
\* universities; a second entry whose name is a substring of the first, so
\* that the same university is processed twice in a row; a null name
CatalogTwo ==
  << [name |-> NameA, link |-> LinkA], [name |-> NameB, link |-> LinkB] >>
CatalogRepeat ==
  << [name |-> NameA, link |-> LinkA], [name |-> NameShort, link |-> LinkC] >>
CatalogNull ==
  << [name |-> NameA, link |-> LinkA], [name |-> NoneStr, link |-> LinkC],
     [name |-> NameB, link |-> LinkB] >>

\* DownloaderConfig(preserve_login_from_existing=True) in both batch drivers
preserve_login_from_existing == TRUE
\* HTMLDownloader(..., use_existing_chrome=False)
use_existing_chrome == FALSE
\* DownloaderConfig.truncate_at_widget default
truncate_at_widget == TRUE

\* status codes the in-page probe reports
StatusCodes == {NoStatus, 0, 200, 401, 403, 404, 408, 410, 429, 500, 502, 503}

\* what a fresh browser shows before any navigation
BlankPage ==
  [url |-> [scheme |-> "data", host |-> "", path |-> <<>>],
   html |-> << <<"t", "blank">> >>, status |-> 200]

\* what the browser shows after visiting the last origin during session apply
OriginPage ==
  [url |-> [BASE_URL EXCEPT !.path = <<"/">>],
   html |-> << <<"t", "home">> >>, status |-> 200]

WidgetTail ==
  << <<"t","<div ">>, <<"t","id=">>, <<"t","blueshift-recommendations-widget">>,
     <<"t","recommended">> >>

\* a regular profile page served at url, as seen with or without a login
ProfileHtml(url, logged_in) ==
  IF logged_in
  THEN << <<"canon", "premium.usnews.com", url.path>>, <<"t","profile">>, <<"t","Sign out">> >>
       \o WidgetTail
  ELSE << <<"canon", "www.usnews.com", url.path>>, <<"t","profile">>, <<"t","Sign in">> >>
       \o WidgetTail

\* the ways one (university, page type) of the site can answer
SiteKinds ==
  { [k |-> "ok", status |-> 200] }
  \cup { [k |-> "status", status |-> c] : c \in {NoStatus, 403, 404, 429, 503} }
  \cup { [k |-> "cdn_body", status |-> c] : c \in {NoStatus, 0, 200, 503} }
  \cup { [k |-> "cdn_url", status |-> c] : c \in {0, 200, 403} }
  \cup { [k |-> x, status |-> 200] :
            x \in {"generic", "generic_tail", "to_main", "canon_main", "url_main",
                   "trailing_slash", "empty", "paywall", "widget_first"} }
  \cup { [k |-> "unreachable", status |-> NoStatus] }

\* the page the browser holds after a successful GET of the page of
\* university `link`, page type PAGE_TYPES[pi], under answer `kind`
SitePage(kind, link, pi, logged_in) ==
  LET url == construct_url_from_link(link, PAGE_TYPES[pi])
      main_url == construct_url_from_link(link, <<>>)
      ok == [url |-> url, html |-> ProfileHtml(url, logged_in), status |-> kind.status]
  IN CASE kind.k \in {"ok", "status"} -> ok
       [] kind.k = "cdn_body" ->
            [ok EXCEPT !.html = << <<"t","Access Denied">>, <<"t","Reference #">> >>]
       [] kind.k = "cdn_url" ->
            [ok EXCEPT !.url = [scheme |-> "https", host |-> EdgeHost, path |-> <<"/","e">>],
                       !.html = << <<"t","An error occurred">> >>]
       [] kind.k = "generic" ->
            [ok EXCEPT !.html = << <<"t","generic">>, <<"t","Sign out">> >>]
       [] kind.k = "generic_tail" ->
            [ok EXCEPT !.html = << <<"t","generic">>, <<"t","Sign out">>,
                                  <<"t","SailthruRecommend__Container">>,
                                  <<"canon", "premium.usnews.com", url.path>> >>]
       [] kind.k = "to_main" ->
            [ok EXCEPT !.url = main_url, !.html = ProfileHtml(main_url, logged_in)]
       [] kind.k = "canon_main" ->
            [ok EXCEPT !.html = ProfileHtml(main_url, logged_in)]
       [] kind.k = "url_main" ->
            [ok EXCEPT !.url = main_url]
       [] kind.k = "trailing_slash" ->
            [ok EXCEPT !.url = [url EXCEPT !.path = url.path \o <<"/">>]]
       [] kind.k = "empty" -> [ok EXCEPT !.html = <<>>]
       [] kind.k = "paywall" ->
            IF logged_in THEN ok
            ELSE [ok EXCEPT !.url = main_url, !.html = ProfileHtml(main_url, FALSE)]
       [] kind.k = "widget_first" ->
            [ok EXCEPT !.html = WidgetTail \o << <<"t","Sign out">> >>]
       [] kind.k = "unreachable" ->
            [ok EXCEPT !.url = [scheme |-> "chrome-error", host |-> "chromewebdata",
                                path |-> <<"/">>],
                       !.html = << <<"t","This site can't be reached">> >>]

\* which page types (by index) deviate from the regular answer
OddSets == { {}, {1}, {3, 4}, {7} }

\* the answer of the site for page type pi under the chosen deviation
KindOf(oddSet, oddKind, pi) ==
  IF pi \in oddSet THEN oddKind ELSE [k |-> "ok", status |-> 200]

(* ---------------------------------------------------------------------- *)
(* State                                                                   *)
(* ---------------------------------------------------------------------- *)
VARIABLES
  catalog,            \* HTMLDownloader.universities, as loaded from the catalog file
  batchKind,          \* which batch loop drives the run
  captured,           \* SessionManager holds a non-empty captured session
  oddSet, oddKind,    \* the source data of the remote site (never changes)
  machine,            \* what the machine answers during browser set-up (never changes)
  timeouts,           \* config.page_load_timeout, the driver's page-load timeout, the overrides
  fs,                 \* the files on disk: path -> content
  driver,             \* self.driver is not None
  sess,               \* the captured session has been applied to this browser instance
  page,               \* the page the browser currently shows
  faults,             \* environment faults seen so far; a fault can happen while faults < MaxFaults
  acts,               \* effects performed during the current download_all_pages call
  plog,               \* what the current download_university_page call did, in order
  bpc, bi,            \* position of the batch loop
  success_count, failed_count, skipped_count,
  prev,               \* summary of the previous download_all_pages call
  pc,                 \* position inside download_all_pages / download_university_page
  university_name,    \* argument of download_all_pages
  university_info,    \* result of find_university_by_name
  downloaded_files,
  pi,                 \* index of the page type being processed
  hashes,             \* self._current_university_hashes
  ret,                \* how download_all_pages ended: returned list or raised
  retry_count, redirect_retry_left, html_content, current_url,
  wlog,               \* every open-for-write of the current call: path, page type, success
  excSeen,            \* an Exception was raised inside the current call
  outcome,            \* how the last finished download_university_page call ended
  verdict             \* result of the last classification of a response

env == <<catalog, batchKind, captured, oddSet, oddKind, machine, timeouts>>
browser == <<driver, sess, page, faults, acts, plog>>
batch == <<bpc, bi, success_count, failed_count, skipped_count, prev>>
locals == <<retry_count, redirect_retry_left, html_content, current_url>>
vars == <<catalog, batchKind, captured, oddSet, oddKind, machine, timeouts, fs, driver, sess, page, faults,
          acts, plog, bpc, bi, success_count, failed_count, skipped_count, prev, pc,
          university_name, university_info, downloaded_files, pi, hashes, ret,
          retry_count, redirect_retry_left, html_content, current_url, wlog, excSeen,
          outcome, verdict>>

\* the browser-side state threaded through one handler
B == [drv |-> driver, sess |-> sess, page |-> page, faults |-> faults, acts |-> acts,
      log |-> plog]

SetB(b) ==
  /\ driver' = b.drv
  /\ sess' = b.sess
  /\ page' = b.page
  /\ faults' = b.faults
  /\ acts' = b.acts
  /\ plog' = b.log

CanFault(b) == b.faults < MaxFaults
Fault(b) == [b EXCEPT !.faults = @ + 1]
Did(b, a) == [b EXCEPT !.acts = @ \cup {a}, !.log = Append(@, a)]
\* a step that touches no browser: a sleep, the entry of a call
Noted(b, a) == [b EXCEPT !.log = Append(@, a)]

\* the state of a browser that has just been started
Fresh(b) == [b EXCEPT !.drv = TRUE, !.sess = FALSE, !.page = BlankPage]
\* no browser
Gone(b) == [b EXCEPT !.drv = FALSE, !.sess = FALSE, !.page = BlankPage]

(* ---------------------------------------------------------------------- *)
(* SeleniumConfig defaults                                                 *)
(* ---------------------------------------------------------------------- *)
navigate_retry_count == 1
healthcheck_on_startup == TRUE
healthcheck_before_navigation == FALSE

\* int(override.get("retries", 3)) with the default (empty) page_type_overrides
DefaultRetries == 3
page_type_overrides == [ x \in {} |-> [retries |-> 0] ]
max_retries(page_type) ==
  IF page_type \in DOMAIN page_type_overrides
  THEN page_type_overrides[page_type].retries ELSE DefaultRetries

\* max_content_retries in download_university_page
max_content_retries == 2

(* ---------------------------------------------------------------------- *)
(* chrome_setup.py, health_check.py, selenium_base.py: browser lifecycle   *)
(* Each operation yields the set of its possible outcomes.                 *)
(* ---------------------------------------------------------------------- *)
\* ChromeSetup.setup_driver: a driver, or None when every strategy fails
ChromeSetup_setup_driver(b) ==
  { [b |-> Did(b, "start"), driver |-> TRUE] }
  \cup (IF CanFault(b) THEN { [b |-> Fault(b), driver |-> FALSE] } ELSE {})

RECURSIVE restart_chrome(_)
RECURSIVE ensure_responsive_or_restart(_)

\* HealthChecker.ensure_responsive_or_restart
ensure_responsive_or_restart(b) ==
  IF ~b.drv THEN restart_chrome(b)
  ELSE { [b |-> b, ok |-> TRUE] }
       \cup (IF CanFault(b) THEN restart_chrome(Fault(b)) ELSE {})

\* HealthChecker.restart_chrome
restart_chrome(b) ==
  LET b1 == IF b.drv THEN Gone(Did(b, "quit")) ELSE Gone(b)
  IN UNION { IF o.driver
             THEN { [b |-> e.b, ok |-> TRUE] :
                      e \in IF healthcheck_on_startup
                            THEN ensure_responsive_or_restart(Fresh(o.b))
                            ELSE { [b |-> Fresh(o.b), ok |-> TRUE] } }
             ELSE { [b |-> o.b, ok |-> FALSE] }
           : o \in ChromeSetup_setup_driver(b1) }

\* SeleniumBase.setup_driver
setup_driver(b) ==
  UNION { IF o.driver
          THEN { [b |-> e.b, raised |-> FALSE] :
                   e \in IF healthcheck_on_startup
                         THEN ensure_responsive_or_restart(Fresh(o.b))
                         ELSE { [b |-> Fresh(o.b), ok |-> TRUE] } }
          ELSE { [b |-> Gone(o.b), raised |-> TRUE] }
        : o \in ChromeSetup_setup_driver(b) }

\* fault injection: a close that drops the handle without quitting the browser
close_mut(b) == Gone(b)

\* SeleniumBase.close
close(b) == IF b.drv THEN Gone(Did(b, "quit")) ELSE b

\* fault injection: an apply that does not test for an empty capture
apply_session_to_current_driver_mut(b) ==
  IF ~b.drv THEN { [b |-> b, applied |-> FALSE] }
  ELSE { [b |-> [Did(b, "apply") EXCEPT !.sess = TRUE, !.page = OriginPage],
          applied |-> TRUE] }
       \cup (IF CanFault(b)
             THEN { [b |-> Did(Fault(b), "apply"), applied |-> FALSE] } ELSE {})

\* SessionManager.apply_session_to_current_driver
apply_session_to_current_driver(b) ==
  IF ~b.drv \/ ~captured THEN { [b |-> b, applied |-> FALSE] }
  ELSE { [b |-> [Did(b, "apply") EXCEPT !.sess = TRUE, !.page = OriginPage],
          applied |-> TRUE] }
       \cup (IF CanFault(b)
             THEN { [b |-> Did(Fault(b), "apply"), applied |-> FALSE] } ELSE {})

\* SessionManager.clear_cache_and_data: every clearing call is wrapped in
\* its own try/except, so a failing clear leaves the data and returns
clear_cache_and_data(b) ==
  IF ~b.drv THEN { b }
  ELSE { [Noted(b, "clear") EXCEPT !.sess = FALSE] }
       \cup (IF CanFault(b) THEN { Noted(Fault(b), "clear_failed") } ELSE {})

RECURSIVE GetLoop(_, _, _, _)
\* the while-loop of NavigationManager.navigate_to: a GET of a page that
\* cannot be reached times out every time, any other GET may fail once in a
\* while; no driver_container is passed by SeleniumBase.navigate_to, so a
\* failed GET is retried on the same driver
GetLoop(b, link, pidx, attempts) ==
  IF KindOf(oddSet, oddKind, pidx).k = "unreachable"
  THEN IF attempts + 1 > navigate_retry_count
       THEN { [b |-> Did(b, "nav"), ok |-> FALSE] }
       ELSE GetLoop(Did(b, "nav"), link, pidx, attempts + 1)
  ELSE { [b |-> [Did(b, "nav") EXCEPT
                   !.page = SitePage(KindOf(oddSet, oddKind, pidx), link, pidx, b.sess)],
          ok |-> TRUE] }
       \cup (IF ~CanFault(b) THEN {}
             ELSE IF attempts + 1 > navigate_retry_count
                  THEN { [b |-> Did(Fault(b), "nav"), ok |-> FALSE] }
                  ELSE GetLoop(Did(Fault(b), "nav"), link, pidx, attempts + 1))

\* NavigationManager.navigate_to as called by SeleniumBase.navigate_to:
\* with a precheck the call ensure_responsive_or_restart(timeout_seconds=...)
\* lacks its driver_container argument, the TypeError is caught and the
\* navigation reports failure
NavigationManager_navigate_to(b, link, pidx, do_precheck) ==
  IF ~b.drv THEN { [b |-> b, ok |-> FALSE] }
  ELSE IF (IF do_precheck = "None" THEN healthcheck_before_navigation
           ELSE do_precheck = "True")
       THEN { [b |-> b, ok |-> FALSE] }
  ELSE GetLoop(b, link, pidx, 0)

\* SeleniumBase.navigate_to
navigate_to(b, link, pidx, do_precheck) ==
  IF b.drv
  THEN { [b |-> n.b, ok |-> n.ok, raised |-> FALSE] :
           n \in NavigationManager_navigate_to(Noted(b, "navigate"), link, pidx, do_precheck) }
  ELSE UNION { IF s.raised THEN { [b |-> s.b, ok |-> FALSE, raised |-> TRUE] }
               ELSE { [b |-> n.b, ok |-> n.ok, raised |-> FALSE] :
                        n \in NavigationManager_navigate_to(s.b, link, pidx, do_precheck) }
             : s \in setup_driver(Noted(b, "navigate")) }

\* NavigationManager.get_response_status_code: the answer of the server, or
\* a transient failure of the probe request
get_response_status_code(b) ==
  { [b |-> b, status |-> IF b.drv THEN b.page.status ELSE NoStatus] }
  \cup (IF CanFault(b) /\ b.drv THEN { [b |-> Fault(b), status |-> 503] } ELSE {})

\* NavigationManager.get_page_source
get_page_source(b) ==
  { [b |-> Noted(b, "source"), html |-> IF b.drv THEN b.page.html ELSE HtmlNone] }
  \cup (IF CanFault(b) /\ b.drv
        THEN { [b |-> Fault(Noted(b, "source")), html |-> HtmlNone] } ELSE {})

(* ---------------------------------------------------------------------- *)
(* html_downloader.py: download_all_pages and download_university_page     *)
(* ---------------------------------------------------------------------- *)
\* Python None as a file path
NoPath == <<>>

NoInfo == [k |-> "none"]
NoRet == [k |-> "none", files |-> <<>>]
NoPrev == [name |-> NoneStr, saved |-> 0, k |-> "none"]
NoOutcome == [pi |-> 0, why |-> "none"]
\* a run in which the set-up answers of the machine, or the page-load
\* timeouts, play no part
NoMachine == [k |-> "none"]

NoVerdict == [k |-> "none"]

\* the ways a download_university_page call ends with an exception caught
Raised == {"driver_failed", "open_failed", "write_failed"}

ResetLocals ==
  /\ retry_count' = 0
  /\ redirect_retry_left' = 1
  /\ html_content' = HtmlNone
  /\ current_url' = EmptyUrl

\* _apply_login_session_with_timeout: the return value of the apply is
\* dropped; only a TimeoutError or another exception escaping it counts as
\* a failure
_apply_login_session_with_timeout(b) ==
  { [b |-> a.b, ok |-> TRUE] : a \in apply_session_to_current_driver(Noted(b, "attempt")) }
  \cup (IF CanFault(b) THEN { [b |-> Fault(Noted(b, "attempt")), ok |-> FALSE] } ELSE {})

\* the tail of _apply_login_session_with_retries after the loop
FinalRestart(b) ==
  { [b |-> s.b, ok |-> FALSE] : s \in setup_driver(close(b)) }

RECURSIVE _apply_login_session_with_retries_mut(_, _, _)
\* fault injection: a retry loop that allows one attempt more than asked for
_apply_login_session_with_retries_mut(b, attempts, max_attempts) ==
  UNION { IF t.ok THEN { [b |-> t.b, ok |-> TRUE] }
          ELSE IF attempts + 1 < max_attempts + 1
               THEN UNION { IF s.raised THEN FinalRestart(s.b)
                            ELSE _apply_login_session_with_retries_mut(s.b, attempts + 1,
                                                                       max_attempts)
                          : s \in setup_driver(close(t.b)) }
               ELSE FinalRestart(t.b)
        : t \in _apply_login_session_with_timeout(b) }

RECURSIVE _apply_login_session_with_retries(_, _, _)
\* download_all_pages._apply_login_session_with_retries
_apply_login_session_with_retries(b, attempts, max_attempts) ==
  UNION { IF t.ok THEN { [b |-> t.b, ok |-> TRUE] }
          ELSE IF attempts + 1 < max_attempts
               THEN UNION { IF s.raised THEN FinalRestart(s.b)
                            ELSE _apply_login_session_with_retries(s.b, attempts + 1, max_attempts)
                          : s \in setup_driver(close(t.b)) }
               ELSE FinalRestart(t.b)
        : t \in _apply_login_session_with_timeout(b) }

\* fault injection: a directory listing that never shows earlier downloads
ExistingHtml_mut(files, university_dir) == {}

\* os.listdir(university_dir) filtered on '.html', as full paths
ExistingHtml(files, university_dir) ==
  { f \in DOMAIN files : DirName(f) = university_dir /\ EndsWithHtml(f) }

RECURSIVE SetToSeq(_)
\* a list holding the elements of a set, in the order listdir yields them
SetToSeq(S) ==
  IF S = {} THEN <<>>
  ELSE LET x == CHOOSE y \in S : TRUE IN <<x>> \o SetToSeq(S \ {x})

\* fault injection: a return path that leaves the browser open when the
\* cache clear failed
Finish_mut(b, files) ==
  /\ \E c \in clear_cache_and_data(b) :
       SetB(IF c.log # << >> /\ c.log[Len(c.log)] = "clear_failed" THEN c ELSE close(c))
  /\ ret' = [k |-> "return", files |-> files]
  /\ pc' = "ret"
  /\ pi' = pi
  /\ ResetLocals

\* download_all_pages, lines 623-638: summary, cache clear, return, finally close
Finish(b, files) ==
  /\ \E c \in clear_cache_and_data(b) : SetB(close(c))
  /\ ret' = [k |-> "return", files |-> files]
  /\ pc' = "ret"
  /\ pi' = pi
  /\ ResetLocals

\* DownloaderConfig defaults
wait_success_seconds == 15
wait_skip_seconds == 15

\* download_all_pages, line 619: the delay before the next page type
wait_seconds(file_path) ==
  IF file_path # NoPath THEN wait_success_seconds ELSE wait_skip_seconds

\* fault injection: an exception inside download_university_page that is
\* not caught and leaves download_all_pages
AfterPage_mut(file_path, b, why) ==
  /\ excSeen' = (excSeen \/ why \in Raised)
  /\ outcome' = [pi |-> pi, why |-> why]
  /\ downloaded_files' = IF file_path # NoPath THEN Append(downloaded_files, file_path)
                         ELSE downloaded_files
  /\ IF why \in Raised
     THEN /\ SetB(close(b))
          /\ ret' = [k |-> "raise", files |-> <<>>]
          /\ pc' = "ret"
          /\ pi' = pi
          /\ ResetLocals
     ELSE IF (file_path = NoPath /\ PAGE_TYPES[pi] = <<>>) \/ pi = Len(PAGE_TYPES)
     THEN Finish(b, downloaded_files')
     ELSE /\ SetB(Noted(b, IF file_path # NoPath THEN "wait_success" ELSE "wait_skip"))
          /\ pi' = pi + 1
          /\ pc' = "enter"
          /\ ret' = ret
          /\ ResetLocals

\* fault injection: a page-type loop that goes on to the other page types
\* when the main page was not saved
AfterPage_nogate_mut(file_path, b, why) ==
  /\ excSeen' = (excSeen \/ why \in Raised)
  /\ outcome' = [pi |-> pi, why |-> why]
  /\ downloaded_files' = IF file_path # NoPath THEN Append(downloaded_files, file_path)
                         ELSE downloaded_files
  /\ IF pi = Len(PAGE_TYPES)
     THEN Finish(b, downloaded_files')
     ELSE /\ SetB(Noted(b, IF file_path # NoPath THEN "wait_success" ELSE "wait_skip"))
          /\ pi' = pi + 1
          /\ pc' = "enter"
          /\ ret' = ret
          /\ ResetLocals

\* download_all_pages, lines 606-621: what the loop does with the value
\* download_university_page returned
AfterPage(file_path, b, why) ==
  /\ excSeen' = (excSeen \/ why \in Raised)
  /\ outcome' = [pi |-> pi, why |-> why]
  /\ downloaded_files' = IF file_path # NoPath THEN Append(downloaded_files, file_path)
                         ELSE downloaded_files
  /\ IF (file_path = NoPath /\ PAGE_TYPES[pi] = <<>>) \/ pi = Len(PAGE_TYPES)
     THEN Finish(b, downloaded_files')
     ELSE /\ SetB(Noted(b, IF file_path # NoPath THEN "wait_success" ELSE "wait_skip"))
          /\ pi' = pi + 1
          /\ pc' = "enter"
          /\ ret' = ret
          /\ ResetLocals

\* batch loop: call download_all_pages(universities[i])
BatchCall ==
  /\ batchKind \in {"main_scraper", "main"}
  /\ bpc = "loop" /\ pc = "idle"
  /\ bi <= Len(catalog)
  /\ university_name' = list_all_universities(catalog)[bi]
  /\ bpc' = "wait"
  /\ pc' = "begin"
  /\ acts' = {} /\ plog' = <<>> /\ wlog' = <<>> /\ excSeen' = FALSE /\ outcome' = NoOutcome
  /\ ret' = NoRet /\ university_info' = NoInfo /\ downloaded_files' = <<>>
  /\ UNCHANGED <<env, verdict, fs, driver, sess, page, faults, bi, success_count, failed_count,
                 skipped_count, prev, pi, hashes, locals>>

\* download_all_pages, lines 505-586: lookup and the already-downloaded gate
DapBegin ==
  /\ pc = "begin"
  /\ LET info == find_university_by_name(catalog, university_name)
         university_dir == generate_filename_and_path(info.name, <<>>)[1]
         existing_files == ExistingHtml(fs, university_dir)
     IN /\ university_info' = info
        /\ CASE info.k = "raise" ->
                  /\ ret' = [k |-> "raise", files |-> <<>>]
                  /\ pc' = "ret"
                  /\ UNCHANGED browser
             [] info.k = "none" ->
                  /\ ret' = [k |-> "return", files |-> downloaded_files]
                  /\ pc' = "ret"
                  /\ UNCHANGED browser
             [] info.k = "found" /\ Cardinality(existing_files) >= Len(PAGE_TYPES) ->
                  /\ ret' = [k |-> "return", files |-> SetToSeq(existing_files)]
                  /\ pc' = "ret"
                  /\ SetB(close(B))
             [] OTHER ->
                  /\ pc' = "open"
                  /\ UNCHANGED <<ret, browser>>
  /\ UNCHANGED <<env, verdict, fs, batch, university_name, downloaded_files, pi, hashes, locals,
                 wlog, excSeen, outcome>>

\* fault injection: a download_all_pages that lets the RuntimeError of
\* setup_driver through to its caller
DapOpen_mut ==
  /\ pc = "open"
  /\ \E s \in setup_driver(B) :
       IF s.raised
       THEN /\ excSeen' = TRUE
            /\ outcome' = [pi |-> 0, why |-> "driver_failed"]
            /\ SetB(close(s.b))
            /\ ret' = [k |-> "raise", files |-> <<>>]
            /\ pc' = "ret"
            /\ UNCHANGED <<hashes, pi>>
       ELSE /\ \E a \in (IF preserve_login_from_existing /\ ~use_existing_chrome
                          THEN _apply_login_session_with_retries(s.b, 0, 3)
                          ELSE { [b |-> s.b, ok |-> TRUE] }) : SetB(a.b)
            /\ hashes' = {}
            /\ pi' = 1
            /\ pc' = "enter"
            /\ UNCHANGED <<ret, excSeen, outcome>>
  /\ UNCHANGED <<env, verdict, fs, batch, university_name, university_info, downloaded_files,
                 locals, wlog>>

\* fault injection: a download_all_pages that keeps the dedupe store of the
\* university before
DapOpen_keep_mut ==
  /\ pc = "open"
  /\ \E s \in setup_driver(B) :
       IF s.raised
       THEN /\ excSeen' = TRUE
            /\ outcome' = [pi |-> 0, why |-> "driver_failed"]
            /\ SetB(close(s.b))
            /\ ret' = [k |-> "return", files |-> downloaded_files]
            /\ pc' = "ret"
            /\ UNCHANGED <<hashes, pi>>
       ELSE /\ \E a \in (IF preserve_login_from_existing /\ ~use_existing_chrome
                          THEN _apply_login_session_with_retries(s.b, 0, 3)
                          ELSE { [b |-> s.b, ok |-> TRUE] }) : SetB(a.b)
            /\ hashes' = hashes
            /\ pi' = 1
            /\ pc' = "enter"
            /\ UNCHANGED <<ret, excSeen, outcome>>
  /\ UNCHANGED <<env, verdict, fs, batch, university_name, university_info, downloaded_files,
                 locals, wlog>>

\* download_all_pages, lines 591-597: start the browser, apply the session,
\* reset the dedupe store
DapOpen ==
  /\ pc = "open"
  /\ \E s \in setup_driver(B) :
       IF s.raised
       THEN /\ excSeen' = TRUE
            /\ outcome' = [pi |-> 0, why |-> "driver_failed"]
            /\ SetB(close(s.b))
            /\ ret' = [k |-> "return", files |-> downloaded_files]
            /\ pc' = "ret"
            /\ UNCHANGED <<hashes, pi>>
       ELSE /\ \E a \in (IF preserve_login_from_existing /\ ~use_existing_chrome
                          THEN _apply_login_session_with_retries(s.b, 0, 3)
                          ELSE { [b |-> s.b, ok |-> TRUE] }) : SetB(a.b)
            /\ hashes' = {}
            /\ pi' = 1
            /\ pc' = "enter"
            /\ UNCHANGED <<ret, excSeen, outcome>>
  /\ UNCHANGED <<env, verdict, fs, batch, university_name, university_info, downloaded_files,
                 locals, wlog>>

\* the browser at the entry of download_university_page
Entered == [B EXCEPT !.log = <<>>]

\* download_university_page, lines 239-248 and 314: _ensure_driver_and_session
PageEnter ==
  /\ pc = "enter"
  /\ IF driver
     THEN /\ pc' = "fetch"
          /\ SetB(Entered)
          /\ UNCHANGED <<pi, downloaded_files, ret, locals, excSeen, outcome>>
     ELSE \E s \in setup_driver(Entered) :
            IF s.raised
            THEN AfterPage(NoPath, s.b, "driver_failed")
            ELSE /\ \E a \in (IF preserve_login_from_existing /\ ~use_existing_chrome
                               THEN apply_session_to_current_driver(s.b)
                               ELSE { [b |-> s.b, applied |-> FALSE] }) : SetB(a.b)
                 /\ pc' = "fetch"
                 /\ UNCHANGED <<pi, downloaded_files, ret, locals, excSeen, outcome>>
  /\ UNCHANGED <<env, verdict, fs, batch, university_name, university_info, hashes, wlog>>

\* fault injection: an error loop that tries again on the running browser
\* without a pause
PageFetch_mut ==
  /\ pc = "fetch"
  /\ retry_count <= max_retries(PAGE_TYPES[pi])
  /\ \E n \in navigate_to(B, university_info.link, pi, "None") :
       IF n.raised THEN AfterPage(NoPath, n.b, "driver_failed")
       ELSE IF ~n.ok THEN AfterPage(NoPath, n.b, "nav_failed")
       ELSE \E p1 \in get_response_status_code(n.b) :
              LET info1 == get_error_info(p1.b.drv, p1.status, p1.b.page.url, p1.b.page.html)
              IN IF ~is_error_response(info1)
                 THEN /\ SetB(p1.b)
                      /\ pc' = "content"
                      /\ UNCHANGED <<pi, downloaded_files, ret, locals, excSeen, outcome>>
                 ELSE \E p2 \in get_response_status_code(p1.b) :
                        LET info2 == get_error_info(p2.b.drv, p2.status, p2.b.page.url,
                                                    p2.b.page.html)
                        IN IF is_permanent_error(info2)
                           THEN AfterPage(NoPath, p2.b, "permanent")
                           ELSE IF retry_count < max_retries(PAGE_TYPES[pi])
                           THEN /\ retry_count' = retry_count + 1
                                /\ SetB(p2.b)
                                /\ pc' = "fetch"
                                /\ UNCHANGED <<pi, downloaded_files, ret, redirect_retry_left,
                                               html_content, current_url, excSeen, outcome>>
                           ELSE AfterPage(NoPath, p2.b, "retries_exhausted")
  /\ UNCHANGED <<env, verdict, fs, batch, university_name, university_info, hashes, wlog>>

\* fault injection: an error loop that gives a permanent error up only when
\* the retries are used up
PageFetch_patient_mut ==
  /\ pc = "fetch"
  /\ retry_count <= max_retries(PAGE_TYPES[pi])
  /\ \E n \in navigate_to(B, university_info.link, pi, "None") :
       IF n.raised THEN AfterPage(NoPath, n.b, "driver_failed")
       ELSE IF ~n.ok THEN AfterPage(NoPath, n.b, "nav_failed")
       ELSE \E p1 \in get_response_status_code(n.b) :
              LET info1 == get_error_info(p1.b.drv, p1.status, p1.b.page.url, p1.b.page.html)
              IN IF ~is_error_response(info1)
                 THEN /\ SetB(p1.b)
                      /\ pc' = "content"
                      /\ UNCHANGED <<pi, downloaded_files, ret, locals, excSeen, outcome>>
                 ELSE \E p2 \in get_response_status_code(p1.b) :
                        LET info2 == get_error_info(p2.b.drv, p2.status, p2.b.page.url,
                                                    p2.b.page.html)
                        IN IF is_permanent_error(info2)
                              /\ retry_count >= max_retries(PAGE_TYPES[pi])
                           THEN AfterPage(NoPath, p2.b, "permanent")
                           ELSE IF retry_count < max_retries(PAGE_TYPES[pi])
                           THEN /\ retry_count' = retry_count + 1
                                /\ \E r \in restart_chrome(Noted(p2.b, "sleep")) : SetB(r.b)
                                /\ pc' = "fetch"
                                /\ UNCHANGED <<pi, downloaded_files, ret, redirect_retry_left,
                                               html_content, current_url, excSeen, outcome>>
                           ELSE AfterPage(NoPath, p2.b, "retries_exhausted")
  /\ UNCHANGED <<env, verdict, fs, batch, university_name, university_info, hashes, wlog>>

\* download_university_page, lines 326-347: one pass of the error loop
PageFetch ==
  /\ pc = "fetch"
  /\ retry_count <= max_retries(PAGE_TYPES[pi])
  /\ \E n \in navigate_to(B, university_info.link, pi, "None") :
       IF n.raised THEN AfterPage(NoPath, n.b, "driver_failed")
       ELSE IF ~n.ok THEN AfterPage(NoPath, n.b, "nav_failed")
       ELSE \E p1 \in get_response_status_code(n.b) :
              LET info1 == get_error_info(p1.b.drv, p1.status, p1.b.page.url, p1.b.page.html)
              IN IF ~is_error_response(info1)
                 THEN /\ SetB(p1.b)
                      /\ pc' = "content"
                      /\ UNCHANGED <<pi, downloaded_files, ret, locals, excSeen, outcome>>
                 ELSE \E p2 \in get_response_status_code(p1.b) :
                        LET info2 == get_error_info(p2.b.drv, p2.status, p2.b.page.url,
                                                    p2.b.page.html)
                        IN IF is_permanent_error(info2)
                           THEN AfterPage(NoPath, p2.b, "permanent")
                           ELSE IF retry_count < max_retries(PAGE_TYPES[pi])
                           THEN /\ retry_count' = retry_count + 1
                                /\ \E r \in restart_chrome(Noted(p2.b, "sleep")) : SetB(r.b)
                                /\ pc' = "fetch"
                                /\ UNCHANGED <<pi, downloaded_files, ret, redirect_retry_left,
                                               html_content, current_url, excSeen, outcome>>
                           ELSE AfterPage(NoPath, p2.b, "retries_exhausted")
  /\ UNCHANGED <<env, verdict, fs, batch, university_name, university_info, hashes, wlog>>

RECURSIVE ContentLoop_mut(_, _)
\* fault injection: a content loop that accepts an empty page source on its
\* last attempt
ContentLoop_mut(b, content_retry_count) ==
  UNION { IF Falsy(g.html) /\ content_retry_count < max_content_retries
          THEN ContentLoop_mut(g.b, content_retry_count + 1)
          ELSE { [b |-> g.b, html |-> g.html,
                  url |-> IF g.b.drv THEN g.b.page.url ELSE EmptyUrl] }
        : g \in get_page_source(b) }

RECURSIVE ContentLoop(_, _)
\* download_university_page, lines 355-411: the content extraction loop;
\* html is HtmlNone when every attempt came back empty
ContentLoop(b, content_retry_count) ==
  UNION { IF Falsy(g.html)
          THEN IF content_retry_count < max_content_retries
               THEN ContentLoop(g.b, content_retry_count + 1)
               ELSE { [b |-> g.b, html |-> HtmlNone, url |-> EmptyUrl] }
          ELSE { [b |-> g.b, html |-> g.html,
                  url |-> IF g.b.drv THEN g.b.page.url ELSE EmptyUrl] }
        : g \in get_page_source(b) }

PageContent ==
  /\ pc = "content"
  /\ \E c \in ContentLoop(B, 0) :
       IF c.html = HtmlNone
       THEN AfterPage(NoPath, c.b, "no_content")
       ELSE /\ SetB(c.b)
            /\ html_content' = c.html
            /\ current_url' = c.url
            /\ pc' = "redirect"
            /\ UNCHANGED <<pi, downloaded_files, ret, retry_count, redirect_retry_left,
                           excSeen, outcome>>
  /\ UNCHANGED <<env, verdict, fs, batch, university_name, university_info, hashes, wlog>>

\* download_university_page, lines 413-437: redirect-to-main detection
PageRedirect ==
  /\ pc = "redirect"
  /\ IF PAGE_TYPES[pi] # <<>>
        /\ _redirected_to_main(current_url, html_content, PAGE_TYPES[pi])
     THEN IF redirect_retry_left > 0
          THEN \E a \in (IF preserve_login_from_existing /\ ~use_existing_chrome
                         THEN apply_session_to_current_driver(B)
                         ELSE { [b |-> B, applied |-> FALSE] }) :
               \E n \in navigate_to(a.b, university_info.link, pi, "True") :
                 IF n.raised THEN AfterPage(NoPath, n.b, "driver_failed")
                 ELSE IF ~n.ok THEN AfterPage(NoPath, n.b, "redirect")
                 ELSE \E g \in get_page_source(n.b) :
                        IF Falsy(g.html) THEN AfterPage(NoPath, g.b, "redirect")
                        ELSE IF _redirected_to_main(g.b.page.url, g.html, PAGE_TYPES[pi])
                        THEN AfterPage(NoPath, g.b, "redirect")
                        ELSE /\ SetB(g.b)
                             /\ html_content' = g.html
                             /\ current_url' = g.b.page.url
                             /\ redirect_retry_left' = redirect_retry_left - 1
                             /\ pc' = "login"
                             /\ UNCHANGED <<pi, downloaded_files, ret, retry_count, excSeen, outcome>>
          ELSE AfterPage(NoPath, B, "redirect")
     ELSE /\ pc' = "login"
          /\ UNCHANGED <<browser, pi, downloaded_files, ret, locals, excSeen, outcome>>
  /\ UNCHANGED <<env, verdict, fs, batch, university_name, university_info, hashes, wlog>>

\* HTMLDownloader._restart_chrome_and_relogin
_restart_chrome_and_relogin(b) ==
  UNION { IF s.raised THEN { [b |-> s.b, ok |-> FALSE] }
          ELSE IF preserve_login_from_existing /\ ~use_existing_chrome
               THEN { [b |-> a.b, ok |-> TRUE] : a \in apply_session_to_current_driver(s.b) }
               ELSE { [b |-> s.b, ok |-> TRUE] }
        : s \in setup_driver(close(b)) }

\* download_university_page, lines 439-469: login check and the one re-fetch
PageLogin ==
  /\ pc = "login"
  /\ IF _check_login_status(html_content)
     THEN /\ pc' = "save"
          /\ UNCHANGED <<browser, pi, downloaded_files, ret, locals, excSeen, outcome>>
     ELSE \E r \in _restart_chrome_and_relogin(B) :
            IF ~r.ok
            THEN /\ SetB(r.b)
                 /\ pc' = "save"
                 /\ UNCHANGED <<pi, downloaded_files, ret, locals, excSeen, outcome>>
            ELSE \E n \in navigate_to(r.b, university_info.link, pi, "None") :
                   IF n.raised THEN AfterPage(NoPath, n.b, "driver_failed")
                   ELSE IF ~n.ok
                   THEN /\ SetB(n.b)
                        /\ pc' = "save"
                        /\ UNCHANGED <<pi, downloaded_files, ret, locals, excSeen, outcome>>
                   ELSE \E g \in get_page_source(n.b) :
                          /\ SetB(g.b)
                          /\ html_content' = g.html
                          /\ pc' = "save"
                          /\ UNCHANGED <<pi, downloaded_files, ret, retry_count,
                                         redirect_retry_left, current_url, excSeen, outcome>>
  /\ UNCHANGED <<env, verdict, fs, batch, university_name, university_info, hashes, wlog>>

\* open(file_path, 'w') followed by f.write(text): the file afterwards
WriteFile(files, file_path, text) ==
  [ f \in DOMAIN files \cup {file_path} |-> IF f = file_path THEN text ELSE files[f] ]

\* download_university_page, lines 471-486: widget removal and _save_html
PageSave ==
  /\ pc = "save"
  /\ LET html_text == TruncateAtWidget(truncate_at_widget, html_content)
         file_path_local == FilePath(university_info.name, PAGE_TYPES[pi])
         content_hash_local == ContentHash(html_text)
         entry(ok) == [path |-> file_path_local, pi |-> pi, ok |-> ok,
                       text |-> html_text]
     IN IF content_hash_local # <<"None">> /\ content_hash_local \in hashes
        THEN /\ AfterPage(NoPath, B, "duplicate")
             /\ UNCHANGED <<fs, hashes, wlog>>
        ELSE \/ /\ html_text # HtmlNone
                /\ fs' = WriteFile(fs, file_path_local, html_text)
                /\ hashes' = hashes \cup {content_hash_local}
                /\ wlog' = Append(wlog, entry(TRUE))
                /\ AfterPage(file_path_local, Did(B, "write"), "saved")
             \/ \* f.write(None) throws after open() has created the file
                /\ html_text = HtmlNone
                /\ fs' = WriteFile(fs, file_path_local, <<>>)
                /\ wlog' = Append(wlog, entry(FALSE))
                /\ AfterPage(NoPath, Did(B, "write"), "write_failed")
                /\ UNCHANGED hashes
             \/ \* open() fails
                /\ CanFault(B)
                /\ AfterPage(NoPath, Fault(B), "open_failed")
                /\ UNCHANGED <<fs, hashes, wlog>>
             \/ \* the write fails after open() has truncated the file
                /\ CanFault(B) /\ html_text # HtmlNone
                /\ fs' = WriteFile(fs, file_path_local, <<>>)
                /\ wlog' = Append(wlog, entry(FALSE))
                /\ AfterPage(NoPath, Did(Fault(B), "write"), "write_failed")
                /\ UNCHANGED hashes
  /\ UNCHANGED <<env, verdict, batch, university_name, university_info>>

\* fault injection: a batch loop that stops at the first exception
BatchHandle_mut ==
  /\ batchKind \in {"main_scraper", "main"}
  /\ bpc = "wait" /\ pc = "ret"
  /\ IF ret.k = "raise"
     THEN /\ failed_count' = failed_count + 1
          /\ UNCHANGED <<success_count, skipped_count>>
     ELSE IF ret.files # <<>>
     THEN /\ success_count' = success_count + 1
          /\ UNCHANGED <<failed_count, skipped_count>>
     ELSE IF batchKind = "main_scraper"
     THEN /\ failed_count' = failed_count + 1
          /\ UNCHANGED <<success_count, skipped_count>>
     ELSE /\ skipped_count' = skipped_count + 1
          /\ UNCHANGED <<success_count, failed_count>>
  /\ bi' = bi + 1
  /\ bpc' = IF ret.k = "raise" \/ bi + 1 > Len(catalog) THEN "done" ELSE "loop"
  /\ pc' = "idle"
  /\ prev' = [name |-> IF university_info.k = "found" THEN university_info.name ELSE NoneStr,
              saved |-> Len(SelectSeq(wlog, LAMBDA e : e.ok)),
              k |-> ret.k]
  /\ UNCHANGED <<env, verdict, fs, browser, university_name, university_info, downloaded_files, pi,
                 hashes, ret, locals, wlog, excSeen, outcome>>

\* main_scraper.download_all_universities, lines 96-111, and
\* main.download_all_html, lines 95-112: the body of the batch loop after
\* download_all_pages has returned or raised
BatchHandle ==
  /\ batchKind \in {"main_scraper", "main"}
  /\ bpc = "wait" /\ pc = "ret"
  /\ IF ret.k = "raise"
     THEN /\ failed_count' = failed_count + 1
          /\ UNCHANGED <<success_count, skipped_count>>
     ELSE IF ret.files # <<>>
     THEN /\ success_count' = success_count + 1
          /\ UNCHANGED <<failed_count, skipped_count>>
     ELSE IF batchKind = "main_scraper"
     THEN /\ failed_count' = failed_count + 1
          /\ UNCHANGED <<success_count, skipped_count>>
     ELSE /\ skipped_count' = skipped_count + 1
          /\ UNCHANGED <<success_count, failed_count>>
  /\ bi' = bi + 1
  /\ bpc' = IF bi + 1 > Len(catalog) THEN "done" ELSE "loop"
  /\ pc' = "idle"
  /\ prev' = [name |-> IF university_info.k = "found" THEN university_info.name ELSE NoneStr,
              saved |-> Len(SelectSeq(wlog, LAMBDA e : e.ok)),
              k |-> ret.k]
  /\ UNCHANGED <<env, verdict, fs, browser, university_name, university_info, downloaded_files, pi,
                 hashes, ret, locals, wlog, excSeen, outcome>>

\* names a user may pass on the command line of main_scraper.py
NameUnknown == <<"z">>
Requests == { NameUnknown }

\* main_scraper.main, lines 145-157: one university named on the command line
SingleCall ==
  /\ batchKind = "single"
  /\ bpc = "loop" /\ pc = "idle"
  /\ \E arg \in Requests : university_name' = arg
  /\ bpc' = "wait"
  /\ pc' = "begin"
  /\ acts' = {} /\ plog' = <<>> /\ wlog' = <<>> /\ excSeen' = FALSE /\ outcome' = NoOutcome
  /\ ret' = NoRet /\ university_info' = NoInfo /\ downloaded_files' = <<>>
  /\ UNCHANGED <<env, verdict, fs, driver, sess, page, faults, bi, success_count, failed_count,
                 skipped_count, prev, pi, hashes, locals>>

\* main_scraper.main, lines 159-173: the report after download_all_pages
SingleReturn ==
  /\ batchKind = "single"
  /\ bpc = "wait" /\ pc = "ret"
  /\ bpc' = "done"
  /\ pc' = "idle"
  /\ prev' = [name |-> IF university_info.k = "found" THEN university_info.name ELSE NoneStr,
              saved |-> Len(SelectSeq(wlog, LAMBDA e : e.ok)),
              k |-> ret.k]
  /\ UNCHANGED <<env, verdict, fs, browser, bi, success_count, failed_count, skipped_count,
                 university_name, university_info, downloaded_files, pi,
                 hashes, ret, locals, wlog, excSeen, outcome>>

\* a directory of university A left by earlier runs: six page files and a
\* stray .html
OldFiles ==
  [ f \in { FilePath(NameA, PAGE_TYPES[i]) : i \in 1..6 }
          \cup { PathJoin(PathJoin(downloads_dir, _slugify_name(NameA)),
                          <<"o","l","d",".","h","t","m","l">>) }
      |-> << <<"t","old">> >> ]

\* the runs the model starts from: catalog file, batch entry point, files
\* already on disk
Scenarios ==
  { [catalog |-> CatalogTwo, batchKind |-> "main_scraper", files |-> <<>>],
    [catalog |-> CatalogRepeat, batchKind |-> "main", files |-> <<>>],
    [catalog |-> CatalogNull, batchKind |-> "main_scraper", files |-> <<>>],
    [catalog |-> CatalogNull, batchKind |-> "main", files |-> <<>>],
    [catalog |-> CatalogTwo, batchKind |-> "main", files |-> OldFiles],
    [catalog |-> CatalogTwo, batchKind |-> "single", files |-> <<>>] }

Init ==
  /\ \E sc \in Scenarios :
       /\ catalog = sc.catalog
       /\ batchKind = sc.batchKind
       /\ fs = sc.files
  /\ captured \in BOOLEAN
  /\ oddSet \in OddSets
  /\ oddKind \in SiteKinds
  /\ machine = NoMachine
  /\ timeouts = NoMachine
  /\ (oddSet = {}) = (oddKind.k = "ok")
  /\ driver = FALSE /\ sess = FALSE /\ page = BlankPage
  /\ faults = 0 /\ acts = {} /\ plog = <<>>
  /\ bpc = "loop" /\ bi = 1
  /\ success_count = 0 /\ failed_count = 0 /\ skipped_count = 0
  /\ prev = NoPrev
  /\ pc = "idle"
  /\ university_name = NoneStr /\ university_info = NoInfo
  /\ downloaded_files = <<>> /\ pi = 1 /\ hashes = {}
  /\ ret = NoRet
  /\ retry_count = 0 /\ redirect_retry_left = 1
  /\ html_content = HtmlNone /\ current_url = EmptyUrl
  /\ wlog = <<>> /\ excSeen = FALSE /\ outcome = NoOutcome /\ verdict = NoVerdict

Next ==
  \/ BatchCall
  \/ DapBegin
  \/ DapOpen
  \/ PageEnter
  \/ PageFetch
  \/ PageContent
  \/ PageRedirect
  \/ PageLogin
  \/ PageSave
  \/ BatchHandle
  \/ SingleCall
  \/ SingleReturn

Spec == Init /\ [][Next]_vars

(* ---------------------------------------------------------------------- *)
(* Response classification on its own: the three wrappers of              *)
(* NavigationManager applied to every browser state of the matrix         *)
(* ---------------------------------------------------------------------- *)
ProbeUrls ==
  { [BASE_URL EXCEPT !.path = LinkA],
    [scheme |-> "https", host |-> EdgeHost, path |-> <<"/","e">>],
    [scheme |-> "chrome-error", host |-> "chromewebdata", path |-> <<"/">>] }

ProbeBodies ==
  { << <<"t","profile">> >>,
    << <<"t","Access Denied">>, <<"t","Reference #">> >>,
    << <<"t", EdgeHost>> >>,
    HtmlNone }

\* a browser, if any, showing some page; the status probe answers steadily
InitClassify ==
  /\ catalog = CatalogTwo /\ batchKind = "main" /\ captured = FALSE
  /\ oddSet = {} /\ oddKind = [k |-> "ok", status |-> 200]
  /\ machine = NoMachine
  /\ timeouts = NoMachine
  /\ fs = <<>>
  /\ driver \in BOOLEAN /\ sess = FALSE
  /\ page \in [url : ProbeUrls, html : ProbeBodies, status : StatusCodes]
  /\ faults = MaxFaults /\ acts = {} /\ plog = <<>>
  /\ bpc = "classify" /\ bi = 1
  /\ success_count = 0 /\ failed_count = 0 /\ skipped_count = 0
  /\ prev = NoPrev
  /\ pc = "idle"
  /\ university_name = NoneStr /\ university_info = NoInfo
  /\ downloaded_files = <<>> /\ pi = 1 /\ hashes = {}
  /\ ret = NoRet
  /\ retry_count = 0 /\ redirect_retry_left = 1
  /\ html_content = HtmlNone /\ current_url = EmptyUrl
  /\ wlog = <<>> /\ excSeen = FALSE /\ outcome = NoOutcome /\ verdict = NoVerdict

\* the info dictionary get_error_info(driver) computes for the browser b
InfoOf(b) ==
  { get_error_info(p.b.drv, p.status, p.b.page.url, p.b.page.html) :
      p \in get_response_status_code(b) }

\* NavigationManager.get_error_info(driver)
ClassifyInfo ==
  /\ bpc = "classify"
  /\ \E info \in InfoOf(B) : verdict' = [k |-> "info", info |-> info]
  /\ UNCHANGED <<env, fs, browser, batch, pc, university_name, university_info,
                 downloaded_files, pi, hashes, ret, locals, wlog, excSeen, outcome>>

\* NavigationManager.is_error_response(driver)
ClassifyError ==
  /\ bpc = "classify"
  /\ \E info \in InfoOf(B) : verdict' = [k |-> "is_error", v |-> is_error_response(info)]
  /\ UNCHANGED <<env, fs, browser, batch, pc, university_name, university_info,
                 downloaded_files, pi, hashes, ret, locals, wlog, excSeen, outcome>>

\* NavigationManager.is_permanent_error(driver)
ClassifyPermanent ==
  /\ bpc = "classify"
  /\ \E info \in InfoOf(B) : verdict' = [k |-> "permanent", v |-> is_permanent_error(info)]
  /\ UNCHANGED <<env, fs, browser, batch, pc, university_name, university_info,
                 downloaded_files, pi, hashes, ret, locals, wlog, excSeen, outcome>>

NextClassify ==
  \/ ClassifyInfo
  \/ ClassifyError
  \/ ClassifyPermanent

SpecClassify == InitClassify /\ [][NextClassify]_vars

(* ---------------------------------------------------------------------- *)
(* One download_all_pages call on an unreliable machine                     *)
(* ---------------------------------------------------------------------- *)
\* how many more faults than MaxFaults the machine may show during one call
ExtraFaults == 2

\* download_all_pages for the first catalog entry, its directory not yet on
\* disk, at the point where the browser is about to be started (line 591);
\* the machine may still show up to MaxFaults + ExtraFaults faults
InitSession ==
  /\ catalog = CatalogTwo /\ batchKind = "single"
  /\ captured \in BOOLEAN
  /\ oddSet = {} /\ oddKind = [k |-> "ok", status |-> 200]
  /\ machine = NoMachine
  /\ timeouts = NoMachine
  /\ fs = <<>>
  /\ driver = FALSE /\ sess = FALSE /\ page = BlankPage
  /\ faults \in (0 - ExtraFaults)..MaxFaults
  /\ acts = {} /\ plog = <<>>
  /\ bpc = "wait" /\ bi = 1
  /\ success_count = 0 /\ failed_count = 0 /\ skipped_count = 0
  /\ prev = NoPrev
  /\ pc = "open"
  /\ university_name = NameA
  /\ university_info = find_university_by_name(catalog, NameA)
  /\ downloaded_files = <<>> /\ pi = 1 /\ hashes = {}
  /\ ret = NoRet
  /\ retry_count = 0 /\ redirect_retry_left = 1
  /\ html_content = HtmlNone /\ current_url = EmptyUrl
  /\ wlog = <<>> /\ excSeen = FALSE /\ outcome = NoOutcome /\ verdict = NoVerdict

NextSession ==
  \/ DapOpen
  \/ PageEnter
  \/ PageFetch
  \/ PageContent
  \/ PageRedirect
  \/ PageLogin
  \/ PageSave

SpecSession == InitSession /\ [][NextSession]_vars

(* ---------------------------------------------------------------------- *)
(* The helper functions of HTMLDownloader applied to drawn inputs           *)
(* ---------------------------------------------------------------------- *)
MaxHtmlLen == 3
MaxNameLen == 2
MaxCatalogLen == 3

\* all sequences over S of length at most n
SeqsUpTo(S, n) == UNION { [1..k -> S] : k \in 0..n }

\* pieces a page source is made of: plain text and the pieces of the markers
\* of _find_widget_cut_index
HtmlTokens ==
  { <<"t","profile">>, <<"t","<div ">>, <<"t","id=">>,
    <<"t","blueshift-recommendations-widget">>,
    <<"t","null-recommendations-widget">>,
    <<"t","SailthruRecommend__Container">> }

\* page sources handed to the widget removal step
HelperHtmls == SeqsUpTo(HtmlTokens, MaxHtmlLen) \cup {HtmlNone}

\* "link" values of data/universities.json: site-relative paths with and
\* without a trailing slash, a path without its leading slash, an absolute
\* URL, an empty string
HelperLinks ==
  { LinkA,
    <<"/","c","/">>,
    <<"c","/","a">>,
    <<"h",":","/","/","x","/","c","?","q">>,
    <<>> }

\* characters of university names
NameChars == {"A", "b", "1", " ", "&", ",", ".", "-", "_", "/"}

\* names handed to generate_filename_and_path
HelperNames == SeqsUpTo(NameChars, MaxNameLen)

\* names of catalog entries and the names asked for
EntryNames == { <<"A","b">>, <<"b">>, <<"B"," ","c">>, <<"c">> }
Queries == { <<>>, <<"b">>, <<"B">>, <<"a","B">>, <<" ","C">>, <<"z">> }
\* the "link" of the i-th catalog entry
EntryLink(i) == <<"/","c","/">> \o <<DigitChars[i]>>

\* contents of data/universities.json: up to MaxCatalogLen entries, the
\* i-th one with the i-th link
HelperCatalogs ==
  { [ i \in DOMAIN names |-> [name |-> names[i], link |-> EntryLink(i)] ] :
      names \in SeqsUpTo(EntryNames, MaxCatalogLen) }

\* an HTMLDownloader with its catalog loaded and the arguments of one helper
\* call; no browser is running
InitHelpers ==
  /\ batchKind = "single" /\ captured = FALSE
  /\ oddSet = {} /\ oddKind = [k |-> "ok", status |-> 200]
  /\ machine = NoMachine
  /\ timeouts = NoMachine
  /\ driver = FALSE /\ sess = FALSE
  /\ page = [url |-> EmptyUrl, html |-> BlankPage.html, status |-> NoStatus]
  /\ faults = MaxFaults /\ acts = {} /\ plog = <<>>
  /\ bi = 1
  /\ success_count = 0 /\ failed_count = 0 /\ skipped_count = 0
  /\ prev = NoPrev
  /\ pc = "idle"
  /\ downloaded_files = <<>> /\ hashes = {}
  /\ ret = NoRet
  /\ retry_count = 0 /\ redirect_retry_left = 1
  /\ current_url = EmptyUrl
  /\ wlog = <<>> /\ excSeen = FALSE /\ outcome = NoOutcome /\ verdict = NoVerdict
  /\ bpc \in {"widget", "url", "path", "find"}
  /\ html_content \in (IF bpc = "widget" THEN HelperHtmls ELSE {HtmlNone})
  /\ university_info \in (IF bpc = "url"
                          THEN { [k |-> "found", name |-> NameA, link |-> l] : l \in HelperLinks }
                          ELSE {NoInfo})
  /\ pi \in (IF bpc \in {"url", "path"} THEN DOMAIN PAGE_TYPES ELSE {1})
  /\ fs \in (IF bpc = "path" THEN {<<>>, OldFiles} ELSE {<<>>})
  /\ university_name \in (CASE bpc = "path" -> HelperNames
                            [] bpc = "find" -> Queries
                            [] OTHER -> {NoneStr})
  /\ catalog \in (IF bpc = "find" THEN HelperCatalogs ELSE {CatalogTwo})

\* HTMLDownloader._find_widget_cut_index(html_content)
HelperCutIndex ==
  /\ bpc = "widget" /\ html_content # HtmlNone
  /\ verdict' = [k |-> "cut_index", v |-> _find_widget_cut_index(html_content)]
  /\ UNCHANGED <<env, fs, browser, batch, pc, university_name, university_info,
                 downloaded_files, pi, hashes, ret, locals, wlog, excSeen, outcome>>

\* download_university_page, lines 471-483: the content handed to _save_html
HelperTruncate ==
  /\ bpc = "widget"
  /\ verdict' = [k |-> "to_save", v |-> TruncateAtWidget(truncate_at_widget, html_content)]
  /\ UNCHANGED <<env, fs, browser, batch, pc, university_name, university_info,
                 downloaded_files, pi, hashes, ret, locals, wlog, excSeen, outcome>>

\* HTMLDownloader.construct_url_from_link(link, page_type)
HelperUrl ==
  /\ bpc = "url"
  /\ verdict' = [k |-> "url",
                 v |-> construct_url_from_link(university_info.link, PAGE_TYPES[pi])]
  /\ UNCHANGED <<env, fs, browser, batch, pc, university_name, university_info,
                 downloaded_files, pi, hashes, ret, locals, wlog, excSeen, outcome>>

\* HTMLDownloader.generate_filename_and_path(university_name, page_type)
HelperPath ==
  /\ bpc = "path"
  /\ verdict' = [k |-> "path",
                 v |-> generate_filename_and_path(university_name, PAGE_TYPES[pi])]
  /\ UNCHANGED <<env, fs, browser, batch, pc, university_name, university_info,
                 downloaded_files, pi, hashes, ret, locals, wlog, excSeen, outcome>>

\* HTMLDownloader.find_university_by_name(university_name)
HelperFind ==
  /\ bpc = "find"
  /\ verdict' = [k |-> "find", v |-> find_university_by_name(catalog, university_name)]
  /\ UNCHANGED <<env, fs, browser, batch, pc, university_name, university_info,
                 downloaded_files, pi, hashes, ret, locals, wlog, excSeen, outcome>>

NextHelpers ==
  \/ HelperCutIndex
  \/ HelperTruncate
  \/ HelperUrl
  \/ HelperPath
  \/ HelperFind

SpecHelpers == InitHelpers /\ [][NextHelpers]_vars

(* ---------------------------------------------------------------------- *)
(* Browser set-up: driver creation and session capture on drawn machines   *)
(* ---------------------------------------------------------------------- *)
\* the strategies of ChromeSetup.create_driver, in the order of the list
Strategies == <<"system", "webdriver_manager", "homebrew">>

RECURSIVE CreateFrom(_, _, _)
\* the for-loop of create_driver from strategy i on; works is the set of
\* strategies whose builder does not raise on this machine
CreateFrom(works, i, tried) ==
  IF i > Len(Strategies) THEN [driver |-> "None", tried |-> tried]
  ELSE IF Strategies[i] \in works
       THEN [driver |-> Strategies[i], tried |-> Append(tried, Strategies[i])]
       ELSE CreateFrom(works, i + 1, Append(tried, Strategies[i]))

\* fault injection: a create_driver that runs every builder and keeps the
\* driver of the last one that worked
create_driver_mut(works) ==
  LET ok == { i \in DOMAIN Strategies : Strategies[i] \in works }
  IN [driver |-> IF ok = {} THEN "None"
                 ELSE Strategies[CHOOSE i \in ok : \A j \in ok : j <= i],
      tried |-> Strategies]

\* ChromeSetup.create_driver: the driver built (named by its strategy) or
\* None, and the builders invoked
create_driver(works) == CreateFrom(works, 1, << >>)

\* html_downloader.USNEWS_ORIGINS
USNEWS_ORIGINS == <<"www.usnews.com", "premium.usnews.com">>

\* the cookies, and the storage entries as (key, value) pairs, that origin i
\* holds when it holds any; the key "theme" is used by every origin
HeldAt(i) ==
  [cookies |-> << [name |-> "sid", domain |-> USNEWS_ORIGINS[i]] >>,
   storage |-> { <<"theme", USNEWS_ORIGINS[i]>>, <<USNEWS_ORIGINS[i], "1">> }]

\* dict.update on dicts kept as sets of (key, value) pairs
DictUpdate(d, n) == { e \in d : \A x \in n : x[1] # e[1] } \cup n

RECURSIVE CaptureFrom_mut(_, _, _)
\* fault injection: a capture loop that gives up at the first origin it
\* cannot visit
CaptureFrom_mut(at, i, acc) ==
  IF i > Len(USNEWS_ORIGINS) THEN acc
  ELSE IF ~at[i].visit THEN [acc EXCEPT !.visited = Append(@, i)]
  ELSE CaptureFrom_mut(at, i + 1,
         [visited |-> Append(acc.visited, i),
          cookies |-> IF at[i].cookies.has THEN acc.cookies \o HeldAt(i).cookies
                      ELSE acc.cookies,
          local |-> IF at[i].local.has THEN DictUpdate(acc.local, HeldAt(i).storage)
                    ELSE acc.local,
          session |-> IF at[i].session.has THEN DictUpdate(acc.session, HeldAt(i).storage)
                      ELSE acc.session])

RECURSIVE CaptureFrom(_, _, _)
\* the for-loop of capture_session_from_existing from origin i on
CaptureFrom(at, i, acc) ==
  IF i > Len(USNEWS_ORIGINS) THEN acc
  ELSE IF ~at[i].visit THEN CaptureFrom(at, i + 1, [acc EXCEPT !.visited = Append(@, i)])
  ELSE CaptureFrom(at, i + 1,
         [visited |-> Append(acc.visited, i),
          cookies |-> IF at[i].cookies.has THEN acc.cookies \o HeldAt(i).cookies
                      ELSE acc.cookies,
          local |-> IF at[i].local.has THEN DictUpdate(acc.local, HeldAt(i).storage)
                    ELSE acc.local,
          session |-> IF at[i].session.has THEN DictUpdate(acc.session, HeldAt(i).storage)
                      ELSE acc.session])

\* SessionManager.capture_session_from_existing: the returned flag and the
\* session state of the manager afterwards
capture_session_from_existing(m) ==
  LET none == [visited |-> << >>, cookies |-> << >>, local |-> {}, session |-> {}]
      got == IF m.connect THEN CaptureFrom(m.at, 1, none) ELSE none
  IN [ok |-> (got.cookies # << >> \/ got.local # {} \/ got.session # {}),
      got |-> got]

\* the machines a set-up function is run on. For create_driver: the
\* strategies whose builder works. For the capture: whether the existing
\* Chrome can be reached, and how each origin answers: the visit fails, or
\* it succeeds and each read (get_cookies, the two storage scripts) raises
\* or returns, with or without entries
Machines ==
  LET Reads == { [ok |-> FALSE, has |-> FALSE], [ok |-> TRUE, has |-> FALSE],
                 [ok |-> TRUE, has |-> TRUE] }
      OriginAnswers ==
        { [visit |-> FALSE, cookies |-> r, local |-> r, session |-> r] :
            r \in { [ok |-> FALSE, has |-> FALSE] } }
        \cup [visit : {TRUE}, cookies : Reads, local : Reads, session : Reads]
  IN { [k |-> "create_driver", works |-> w] : w \in SUBSET Range(Strategies) }
     \cup { [k |-> "capture", connect |-> c, at |-> a] :
              c \in BOOLEAN, a \in [DOMAIN USNEWS_ORIGINS -> OriginAnswers] }

\* a SeleniumBase just constructed, no browser running, on a drawn machine
InitSetup ==
  /\ catalog = CatalogTwo /\ batchKind = "single" /\ captured = FALSE
  /\ oddSet = {} /\ oddKind = [k |-> "ok", status |-> 200]
  /\ machine \in Machines
  /\ timeouts = NoMachine
  /\ fs = <<>>
  /\ driver = FALSE /\ sess = FALSE
  /\ page = [url |-> EmptyUrl, html |-> BlankPage.html, status |-> NoStatus]
  /\ faults = MaxFaults /\ acts = {} /\ plog = <<>>
  /\ bpc = "setup" /\ bi = 1
  /\ success_count = 0 /\ failed_count = 0 /\ skipped_count = 0
  /\ prev = NoPrev
  /\ pc = "idle"
  /\ university_name = NoneStr /\ university_info = NoInfo
  /\ downloaded_files = <<>> /\ pi = 1 /\ hashes = {}
  /\ ret = NoRet
  /\ retry_count = 0 /\ redirect_retry_left = 1
  /\ html_content = HtmlNone /\ current_url = EmptyUrl
  /\ wlog = <<>> /\ excSeen = FALSE /\ outcome = NoOutcome /\ verdict = NoVerdict

\* ChromeSetup.create_driver(chrome_options)
SetupCreateDriver ==
  /\ bpc = "setup" /\ machine.k = "create_driver"
  /\ verdict' = [k |-> "create_driver", v |-> create_driver(machine.works)]
  /\ UNCHANGED <<env, fs, browser, batch, pc, university_name, university_info,
                 downloaded_files, pi, hashes, ret, locals, wlog, excSeen, outcome>>

\* SessionManager.capture_session_from_existing(USNEWS_ORIGINS)
SetupCapture ==
  /\ bpc = "setup" /\ machine.k = "capture"
  /\ verdict' = [k |-> "capture", v |-> capture_session_from_existing(machine)]
  /\ UNCHANGED <<env, fs, browser, batch, pc, university_name, university_info,
                 downloaded_files, pi, hashes, ret, locals, wlog, excSeen, outcome>>

NextSetup ==
  \/ SetupCreateDriver
  \/ SetupCapture

SpecSetup == InitSetup /\ [][NextSetup]_vars

(* ---------------------------------------------------------------------- *)
(* Page-load timeouts: per-page-type overrides and the session apply       *)
(* ---------------------------------------------------------------------- *)
\* SeleniumConfig.page_load_timeout and SeleniumConfig.origin_nav_timeout
page_load_timeout == 20
origin_nav_timeout == 30

\* no page-load timeout: a driver on which none was set yet (ChromeSetup sets
\* none), a page type without a "timeout" override, a GET that did not run
NoTimeout == -1

\* page_type_overrides as a program may pass them: a "timeout" for some of
\* the first three page types, shorter or longer than every timeout of
\* SeleniumConfig
OverrideMaps == UNION { [S -> {5, 40}] : S \in SUBSET {1, 2, 3} }

\* driver.set_page_load_timeout(n): the driver takes the value, or the call
\* raises and the driver keeps what it had
set_page_load_timeout(t, n) ==
  { [t |-> [t EXCEPT !.driver_timeout = n], raised |-> FALSE],
    [t |-> t, raised |-> TRUE] }

\* SeleniumBase.navigate_to and NavigationManager.navigate_to, as far as
\* timeouts go: without a driver, setup_driver starts one or raises; the
\* driver is given config.page_load_timeout before the first GET (a raise
\* there ends the navigation with False); every GET of the call, first or
\* retried, runs under that value; "used" is the timeout the GETs ran under
navigate_to_timeouts(t) ==
  LET started == IF t.has_driver THEN { t }
                 ELSE { [t EXCEPT !.has_driver = TRUE, !.driver_timeout = NoTimeout] }
  IN (IF t.has_driver THEN {}
      ELSE { [t |-> t, ok |-> FALSE, raised |-> TRUE, used |-> NoTimeout] })
     \cup UNION { UNION { IF s.raised
                          THEN { [t |-> s.t, ok |-> FALSE, raised |-> FALSE,
                                  used |-> NoTimeout] }
                          ELSE { [t |-> s.t, ok |-> ok, raised |-> FALSE,
                                  used |-> s.t.driver_timeout] : ok \in BOOLEAN }
                        : s \in set_page_load_timeout(d, d.config) }
                : d \in started }

\* fault injection: an override that is taken back only when navigate_to
\* returns
_navigate_with_timeout_override_mut(t, override) ==
  IF override = NoTimeout THEN navigate_to_timeouts(t)
  ELSE { IF r.raised THEN r ELSE [r EXCEPT !.t.config = t.config]
         : r \in navigate_to_timeouts([t EXCEPT !.config = override]) }

\* download_university_page._navigate_with_timeout_override: the finally
\* puts config.page_load_timeout back however navigate_to ends
_navigate_with_timeout_override(t, override) ==
  IF override = NoTimeout THEN navigate_to_timeouts(t)
  ELSE { [r EXCEPT !.t.config = t.config]
         : r \in navigate_to_timeouts([t EXCEPT !.config = override]) }

\* SessionManager.apply_session_to_current_driver, as far as timeouts go:
\* nothing is touched without a driver or without a captured session;
\* otherwise the driver is given origin_nav_timeout for the origin visits
\* and config.page_load_timeout in the finally, and a raise of either call
\* is swallowed
apply_session_timeouts(t) ==
  IF ~t.has_driver \/ ~captured
  THEN { [t |-> t, visited |-> FALSE, restored |-> FALSE] }
  ELSE UNION { { [t |-> f.t, visited |-> TRUE, restored |-> ~f.raised]
                 : f \in set_page_load_timeout(s.t, t.config) }
             : s \in set_page_load_timeout(t, origin_nav_timeout) }

\* an HTMLDownloader with drawn page_type_overrides, before the first page
\* type of a university, with or without a running browser
InitTimeouts ==
  /\ catalog = CatalogTwo /\ batchKind = "single"
  /\ captured \in BOOLEAN
  /\ oddSet = {} /\ oddKind \in { k \in SiteKinds : k.k = "ok" }
  /\ machine = NoMachine
  /\ \E o \in OverrideMaps, d \in BOOLEAN :
       /\ timeouts = [k |-> "followed", config |-> page_load_timeout,
                       driver_timeout |-> NoTimeout, has_driver |-> d, overrides |-> o]
       /\ driver = d
  /\ fs = <<>>
  /\ sess = FALSE /\ page = BlankPage
  /\ faults = 0 /\ acts = {} /\ plog = <<>>
  /\ bpc = "timeouts" /\ bi = 1
  /\ success_count = 0 /\ failed_count = 0 /\ skipped_count = 0
  /\ prev = NoPrev
  /\ pc = "idle"
  /\ university_name = NoneStr /\ university_info = NoInfo
  /\ downloaded_files = <<>> /\ pi = 1 /\ hashes = {}
  /\ ret = NoRet
  /\ retry_count = 0 /\ redirect_retry_left = 1
  /\ html_content = HtmlNone /\ current_url = EmptyUrl
  /\ wlog = <<>> /\ excSeen = FALSE /\ outcome = NoOutcome /\ verdict = NoVerdict

\* download_university_page, lines 320-330, for page type pi: the navigation
\* with timeout_override, which is int(override["timeout"]) if the page
\* type has one and None otherwise; the page-type loop then moves on
TimeoutNavigate ==
  /\ bpc = "timeouts"
  /\ \E r \in _navigate_with_timeout_override(timeouts,
                 IF pi \in DOMAIN timeouts.overrides THEN timeouts.overrides[pi]
                 ELSE NoTimeout) :
       /\ timeouts' = r.t
       /\ driver' = r.t.has_driver
       /\ verdict' = [k |-> "navigate", pi |-> pi, ok |-> r.ok, raised |-> r.raised,
                      used |-> r.used]
  /\ pi' = IF pi = Len(PAGE_TYPES) THEN 1 ELSE pi + 1
  /\ UNCHANGED <<catalog, batchKind, captured, oddSet, oddKind, machine, fs, sess, page,
                 faults, acts, plog, batch, pc, university_name, university_info, downloaded_files, hashes, ret, locals,
                 wlog, excSeen, outcome>>

\* SessionManager.apply_session_to_current_driver(USNEWS_ORIGINS)
TimeoutApply ==
  /\ bpc = "timeouts"
  /\ \E r \in apply_session_timeouts(timeouts) :
       /\ timeouts' = r.t
       /\ verdict' = [k |-> "apply", pi |-> pi, visited |-> r.visited,
                      restored |-> r.restored]
  /\ UNCHANGED <<catalog, batchKind, captured, oddSet, oddKind, machine, fs, browser, batch,
                 pc, university_name, university_info, downloaded_files, pi, hashes, ret,
                 locals, wlog, excSeen, outcome>>

NextTimeouts ==
  \/ TimeoutNavigate
  \/ TimeoutApply

SpecTimeouts == InitTimeouts /\ [][NextTimeouts]_vars

(* ---------------------------------------------------------------------- *)
(* Operator interrupt during a run                                         *)
(* ---------------------------------------------------------------------- *)
\* A KeyboardInterrupt raised while download_all_pages is on the stack. It is
\* not an Exception, so no "except Exception" on the way catches it:
\* download_all_pages runs its finally (html_downloader.py 637-638) and the
\* interrupt reaches the caller. main_scraper.download_all_universities
\* catches it (lines 105-108), breaks out of the loop and goes on to the
\* summary (lines 118-122); main.download_all_html (lines 94-118) and
\* main_scraper.main (line 156) have no handler, and the process ends with
\* the traceback.
Interrupt ==
  /\ bpc = "wait"
  /\ SetB(close(B))
  /\ bpc' = IF batchKind = "main_scraper" THEN "interrupted" ELSE "aborted"
  /\ pc' = "idle"
  /\ UNCHANGED <<env, verdict, fs, bi, success_count, failed_count, skipped_count, prev,
                 university_name, university_info, downloaded_files, pi, hashes, ret,
                 locals, wlog, excSeen, outcome>>

NextInterrupt ==
  \/ Next
  \/ Interrupt

SpecInterrupt == Init /\ [][NextInterrupt]_vars

(* ---------------------------------------------------------------------- *)
(* Properties                                                              *)
(* ---------------------------------------------------------------------- *)
\* the last path segment of a URL path, trailing slashes ignored
LastSegment(path) ==
  LET solid == { i \in DOMAIN path : path[i] # "/" }
      n == IF solid = {} THEN 0 ELSE CHOOSE i \in solid : \A j \in solid : j <= i
      cuts == { i \in 1..n : path[i] = "/" }
      m == IF cuts = {} THEN 0 ELSE CHOOSE i \in cuts : \A j \in cuts : j <= i
  IN SubSeq(path, m + 1, n)

\* the page shows the signature of the edge network's error page
CdnSignature(p) ==
  \/ p.url.host = "errors.edgesuite.net"
  \/ /\ p.html # HtmlNone
     /\ \E i \in DOMAIN p.html :
          p.html[i] \in { <<"t", "errors.edgesuite.net">>, <<"t", "Reference #">> }

\* the texts saved by the running download_all_pages call
SavedTexts == { wlog[i].text : i \in { j \in DOMAIN wlog : wlog[j].ok } }

\* the paths saved by the running download_all_pages call, in order
SavedPaths ==
  LET saved == SelectSeq(wlog, LAMBDA e : e.ok)
  IN [ i \in DOMAIN saved |-> saved[i].path ]

\* the files ending in .html directly inside directory dir
HtmlFilesIn(dir) ==
  { f \in DOMAIN fs :
      /\ Len(f) > Len(dir) + 5
      /\ SubSeq(f, 1, Len(dir) + 1) = dir \o <<"/">>
      /\ \A i \in (Len(dir) + 2)..Len(f) : f[i] # "/"
      /\ SubSeq(f, Len(f) - 4, Len(f)) = <<".","h","t","m","l">> }

\* the directory of the university the running call was asked for
TargetDir ==
  PathJoin(downloads_dir,
           _slugify_name(find_university_by_name(catalog, university_name).name))

\* the running call is for the university the previous call, which returned,
\* was for
SameAsPrev ==
  /\ bpc = "wait" /\ prev.k = "return"
  /\ university_info.k = "found" /\ university_info.name = prev.name

\* C1: within one download_all_pages run, a page type whose (possibly
\* truncated) HTML is identical to the HTML already saved for an earlier page
\* type is not written: the call returns None and creates or overwrites no
\* file, so of page types with identical HTML exactly one file is saved
C1_DuplicateContentSavedOnce ==
  [][ /\ (pc = "save" /\ TruncateAtWidget(truncate_at_widget, html_content) \in SavedTexts)
         => /\ fs' = fs /\ wlog' = wlog
            /\ downloaded_files' = downloaded_files
            /\ outcome' = [pi |-> pi, why |-> "duplicate"]
      /\ \A i, j \in DOMAIN wlog' :
           (wlog'[i].ok /\ wlog'[j].ok /\ wlog'[i].text = wlog'[j].text) => i = j
    ]_vars

\* C1 happens: page type 4 came back with HTML that, once truncated, is the
\* HTML saved for page type 3, and was skipped, leaving no file of its own
C1_Witness ==
  /\ oddKind.k = "generic_tail" /\ oddSet = {3, 4}
  /\ outcome = [pi |-> 4, why |-> "duplicate"]
  /\ \E i \in DOMAIN wlog : wlog[i].pi = 3 /\ wlog[i].ok
  /\ university_info.k = "found"
  /\ FilePath(university_info.name, PAGE_TYPES[4]) \notin DOMAIN fs
  /\ FilePath(university_info.name, PAGE_TYPES[3]) \in DOMAIN fs

\* C2 as stated: whatever the first run did, a second download_all_pages run
\* for the same university writes no file
C2_SecondRunWritesNothing ==
  SameAsPrev => wlog = <<>>

\* C2 amended: when the first run saved all seven page types, the second run
\* for the same university writes no file and does not touch the browser
C2_SecondRunAfterCompleteRun ==
  (SameAsPrev /\ prev.saved >= Len(PAGE_TYPES)) => (wlog = <<>> /\ acts = {})

\* C2 happens: the second run for a completely downloaded university returned
C2_Witness ==
  /\ SameAsPrev /\ prev.saved >= Len(PAGE_TYPES)
  /\ pc = "ret" /\ ret.k = "return" /\ Len(ret.files) = Len(PAGE_TYPES)

\* C3: when the target directory of the university already holds at least
\* len(PAGE_TYPES) files ending in .html, download_all_pages returns exactly
\* those paths and starts no browser, applies no session, navigates nowhere
\* and writes nothing
C3_GateSkipsCompleteDirectory ==
  [][ (/\ pc = "begin"
       /\ find_university_by_name(catalog, university_name).k = "found"
       /\ Cardinality(HtmlFilesIn(TargetDir)) >= Len(PAGE_TYPES))
      => /\ pc' = "ret" /\ ret'.k = "return"
         /\ Range(ret'.files) = HtmlFilesIn(TargetDir)
         /\ Len(ret'.files) = Cardinality(HtmlFilesIn(TargetDir))
         /\ acts' = {} /\ wlog' = <<>> /\ fs' = fs
         /\ driver' = FALSE /\ sess' = FALSE /\ page' = page
    ]_vars

\* C3 happens: a call for a university with seven .html files on disk returned
\* them without any browser activity
C3_Witness ==
  /\ pc = "ret" /\ ret.k = "return" /\ prev = NoPrev
  /\ Len(ret.files) >= Len(PAGE_TYPES)
  /\ Range(ret.files) = HtmlFilesIn(TargetDir)
  /\ acts = {} /\ wlog = <<>>

\* the redirect test as download_university_page documents it: the page for
\* a non-main page type p is turned down when the URL does not end in p, and
\* also when a canonical link is present that does not end in p
RedirectRejects(url, html, p) ==
  /\ p # <<>>
  /\ \/ url # EmptyUrl /\ LastSegment(url.path) # p
     \/ \E i \in DOMAIN html :
          /\ html[i][1] = "canon"
          /\ \A j \in 1..(i - 1) : html[j][1] # "canon"
          /\ LastSegment(html[i][3]) # p

\* some canonical link of the page ends in segment p
CanonicalEndsIn(html, p) ==
  \E i \in DOMAIN html : html[i][1] = "canon" /\ LastSegment(html[i][3]) = p

\* C4 as stated: for a non-main page type p the page is not saved when
\* neither the final URL nor the canonical link ends in p, the page passes
\* whenever the final URL ends in p whatever the canonical link says, and
\* the main page type is never turned down
C4_CanonicalCannotVeto ==
  [][ pc = "redirect" =>
        /\ (/\ PAGE_TYPES[pi] # <<>>
            /\ LastSegment(current_url.path) # PAGE_TYPES[pi]
            /\ ~CanonicalEndsIn(html_content, PAGE_TYPES[pi]))
           => (pc' # "login" /\ wlog' = wlog /\ fs' = fs)
        /\ (PAGE_TYPES[pi] # <<>> /\ LastSegment(current_url.path) = PAGE_TYPES[pi])
           => pc' = "login"
        /\ PAGE_TYPES[pi] = <<>> => pc' = "login"
    ]_vars

\* C4 amended: for a non-main page type p the page is turned down, and
\* nothing is saved for it, exactly when the final URL does not end in p or
\* the page carries a canonical link that does not end in p (a canonical
\* link vetoes a matching URL); the main page type is never turned down
C4_RedirectDetection ==
  [][ pc = "redirect" =>
        IF RedirectRejects(current_url, html_content, PAGE_TYPES[pi])
        THEN /\ pc' # "login"
             /\ wlog' = wlog /\ fs' = fs /\ downloaded_files' = downloaded_files
             /\ outcome'.pi = pi /\ outcome'.why \in {"redirect", "driver_failed"}
        ELSE pc' = "login" /\ html_content' = html_content
    ]_vars

\* C4 happens: a page whose URL ends in its page type was turned down because
\* its canonical link points at the main page, and no file was written for it
C4_Witness ==
  /\ oddKind.k = "canon_main" /\ outcome.pi \in oddSet /\ outcome.why = "redirect"
  /\ PAGE_TYPES[outcome.pi] # <<>>
  /\ \A i \in DOMAIN wlog : wlog[i].pi # outcome.pi

\* C5 as stated: a page showing the edge network's error signature never gets
\* past the error loop of download_university_page and is never saved,
\* whatever the status probe reports
C5_CdnPageSkipped ==
  /\ pc = "content" => ~CdnSignature(page)
  /\ \A i \in DOMAIN wlog :
       ~CdnSignature([url |-> EmptyUrl, html |-> wlog[i].text])

\* C6: over the response matrix {200, 401, 403, 404, 410, 408, 429, 500,
\* 502, 503, zero or absent status, page with the edge error signature},
\* is_permanent_error is true exactly for 401, 403, 404, 410 and the edge
\* error page; for 200 get_error_info reports no error type and
\* is_error_response is false
C6_ClassificationMatrix ==
  (bpc = "classify" /\ driver) =>
    /\ verdict.k = "permanent" =>
         (verdict.v <=> (CdnSignature(page) \/ page.status \in {401, 403, 404, 410}))
    /\ (verdict.k = "permanent" /\ ~CdnSignature(page)
          /\ page.status \in {408, 429, 500, 502, 503, 0, NoStatus}) => ~verdict.v
    /\ (verdict.k = "info" /\ ~CdnSignature(page) /\ page.status = 200)
         => verdict.info = [status |-> 200, type |-> "None"]
    /\ (verdict.k = "is_error" /\ ~CdnSignature(page) /\ page.status = 200) => ~verdict.v

\* C6 happens: a page with the edge error signature and probe status 200 has
\* been classified as a permanent error
C6_Witness ==
  /\ bpc = "classify" /\ driver
  /\ page.status = 200 /\ page.url.host = "premium.usnews.com"
  /\ CdnSignature(page)
  /\ verdict = [k |-> "permanent", v |-> TRUE]

\* C7: in one download_all_pages run each page type is written at most once,
\* no two writes go to the same path, and the files of the seven page types
\* of the university are seven distinct paths
C7_OneWritePerPageType ==
  /\ \A i, j \in DOMAIN wlog :
       (wlog[i].pi = wlog[j].pi \/ wlog[i].path = wlog[j].path) => i = j
  /\ (pc = "enter" /\ pi = 1) =>
       Cardinality({ FilePath(university_info.name, PAGE_TYPES[i]) :
                       i \in DOMAIN PAGE_TYPES }) = Len(PAGE_TYPES)

\* C7 happens: a run has written all seven page types, each to its own file
C7_Witness ==
  /\ pc = "ret" /\ Len(wlog) = Len(PAGE_TYPES)
  /\ Cardinality({ wlog[i].path : i \in DOMAIN wlog }) = Len(PAGE_TYPES)
  /\ \A i \in DOMAIN wlog : wlog[i].ok /\ wlog[i].path \in DOMAIN fs

\* C8: once the university has been looked up, an Exception raised while it
\* is processed (browser start, session apply, navigation, save) does not
\* leave download_all_pages: the call returns the paths saved so far in this
\* run, in page-type order
C8_ExceptionsBecomeAList ==
  (pc = "ret" /\ excSeen) =>
    /\ ret.k = "return"
    /\ ret.files = SavedPaths
    /\ \A i, j \in DOMAIN wlog : i < j => wlog[i].pi < wlog[j].pi

\* C8 happens: an exception was raised after a page had been saved and the
\* call returned the saved path
C8_Witness ==
  /\ pc = "ret" /\ excSeen /\ outcome.why \in Raised
  /\ ret.k = "return" /\ ret.files # <<>>

\* the browser could not be started at the beginning of the running call
StartFailed == pc = "ret" /\ outcome = [pi |-> 0, why |-> "driver_failed"]

C10_BatchSurvivesExceptions ==
  [][ (batchKind \in {"main_scraper", "main"}) =>
       ( /\ (bpc = "wait" /\ pc = "ret" /\ ret.k = "raise") =>
                /\ bi' = bi + 1
                /\ bpc' = (IF bi < Len(catalog) THEN "loop" ELSE "done")
                /\ failed_count' = failed_count + 1
         /\ (bpc = "loop" /\ bpc' = "wait") =>
                (bi' = bi /\ university_name' = catalog[bi].name /\ pc' = "begin")
         /\ bi' # bi => (bi' = bi + 1 /\ bpc = "wait" /\ pc = "ret")
         /\ bpc' = "done" => bi' = Len(catalog) + 1 )
    ]_vars

\* C10 happens: the second of three universities raised and the third one is
\* being processed
C10_Witness ==
  /\ catalog = CatalogNull /\ bi = 3 /\ bpc = "wait" /\ pc = "begin"
  /\ prev.k = "raise" /\ failed_count >= 1
  /\ university_name = catalog[3].name

\* C11: when no catalog entry's name contains the requested name,
\* download_all_pages returns an empty list and starts no browser, navigates
\* nowhere, creates no directory and writes no file
C11_UnknownNameDoesNothing ==
  [][ (/\ pc = "begin"
       /\ university_name # NoneStr
       /\ \A i \in DOMAIN catalog :
            catalog[i].name # NoneStr
            /\ ~\E k \in 0..(Len(catalog[i].name) - Len(university_name)) :
                  Lower(SubSeq(catalog[i].name, k + 1, k + Len(university_name)))
                    = Lower(university_name))
      => /\ pc' = "ret" /\ ret' = [k |-> "return", files |-> <<>>]
         /\ acts' = {} /\ wlog' = <<>> /\ fs' = fs
         /\ driver' = driver /\ page' = page /\ sess' = sess
    ]_vars

\* C11 happens: a call for a name no catalog entry contains has returned the
\* empty list with the disk and the browser untouched
C11_Witness ==
  /\ pc = "ret" /\ university_name = NameUnknown
  /\ university_info = [k |-> "none"]
  /\ ret = [k |-> "return", files |-> <<>>]
  /\ acts = {} /\ fs = <<>> /\ ~driver

\* C12: with an empty captured session (no cookies, no localStorage and no
\* sessionStorage entries) apply_session_to_current_driver has one outcome:
\* it returns False and leaves the browser as it was (no navigation, cookie
\* or storage write, no exception); so no run with an empty capture ever
\* records an apply on the driver or a browser that carries the session
C12_EmptySessionApplyIsNoOp ==
  ~captured =>
    /\ apply_session_to_current_driver(B) = { [b |-> B, applied |-> FALSE] }
    /\ "apply" \notin acts
    /\ ~sess

\* C12 happens: download_all_pages started the browser and called the apply
\* with an empty capture; the first page is about to be fetched by a browser
\* that is still on its blank page
C12_Witness ==
  /\ ~captured /\ preserve_login_from_existing /\ ~use_existing_chrome
  /\ pc = "enter" /\ pi = 1 /\ driver
  /\ acts = {"start"} /\ page = BlankPage /\ ~sess

\* the offsets at which the markers of _find_widget_cut_index first occur
MarkerOffsets(html) ==
  { Find(html, WidgetMarkers[i]) : i \in DOMAIN WidgetMarkers } \ {-1}

\* C13: for every HTML string that contains a widget marker the content
\* handed to _save_html is the HTML before the smallest first-occurrence
\* offset of any marker followed by the truncation comment, and HTML without
\* a marker is saved unmodified
C13_TruncatedAtEarliestMarker ==
  (bpc = "widget" /\ verdict.k = "to_save" /\ html_content # HtmlNone) =>
    IF MarkerOffsets(html_content) = {}
    THEN verdict.v = html_content
    ELSE \E m \in MarkerOffsets(html_content) :
           /\ \A o \in MarkerOffsets(html_content) : m <= o
           /\ verdict.v = SubSeq(html_content, 1, m) \o <<TruncationComment>>

\* C13 happens: a page source that begins with a widget marker was handed to
\* the widget removal step and came back whole, widget included
C13_Witness ==
  /\ bpc = "widget" /\ verdict.k = "to_save"
  /\ html_content # HtmlNone
  /\ 0 \in MarkerOffsets(html_content)
  /\ verdict.v = html_content

\* C14: for a catalog link that is a site-relative path (it begins with "/"
\* and names no scheme) construct_url_from_link returns the origin followed
\* by the link itself for the main page type, and by the link, "/" and the
\* page type for every other page type
C14_UrlIsOriginLinkPageType ==
  (/\ bpc = "url" /\ verdict.k = "url"
   /\ StartsWith(university_info.link, <<"/">>)
   /\ ~Contains(university_info.link, <<":","/","/">>))
  => /\ verdict.v.scheme = BASE_URL.scheme
     /\ verdict.v.host = BASE_URL.host
     /\ verdict.v.path =
          IF PAGE_TYPES[pi] = <<>> THEN university_info.link
          ELSE university_info.link \o <<"/">> \o PAGE_TYPES[pi]

\* C14 happens: the URL of the student-life page of a university was built
\* from its site-relative link
C14_Witness ==
  /\ bpc = "url" /\ verdict.k = "url"
  /\ university_info.link = LinkA /\ pi = 6
  /\ verdict.v.path = LinkA \o <<"/">> \o PAGE_TYPES[6]

\* what one character of a university name contributes to the directory name
SlugChar(c) ==
  CASE c = " " -> <<"_">>
    [] c = "&" -> <<"a","n","d">>
    [] IsAlnum(c) \/ c \in {"_", "-"} -> <<c>>
    [] OTHER -> <<>>

RECURSIVE SlugOf(_)
SlugOf(name) ==
  IF name = <<>> THEN <<>> ELSE SlugChar(Head(name)) \o SlugOf(Tail(name))

\* C15: the pair generate_filename_and_path returns is determined by the
\* university name, the page type and the downloads directory alone, whatever
\* is on disk: the directory is the downloads directory joined with the name
\* in which every space became "_", every "&" became "and" and every other
\* character that is not alphanumeric, "_" or "-" was dropped; the file name
\* is main.html for the empty page type and otherwise the page type with
\* every "-" turned into "_", followed by ".html"
C15_PathIsAFunctionOfNameAndType ==
  (bpc = "path" /\ verdict.k = "path") =>
    /\ verdict.v[1] = downloads_dir \o <<"/">> \o SlugOf(university_name)
    /\ verdict.v[2] =
         IF PAGE_TYPES[pi] = <<>> THEN <<"m","a","i","n",".","h","t","m","l">>
         ELSE [ i \in DOMAIN PAGE_TYPES[pi] |->
                  IF PAGE_TYPES[pi][i] = "-" THEN "_" ELSE PAGE_TYPES[pi][i] ]
              \o <<".","h","t","m","l">>

\* C15 happens: the path of the campus-info page of a university named "A&"
\* was computed while its directory already held files of an earlier run
C15_Witness ==
  /\ bpc = "path" /\ verdict.k = "path"
  /\ university_name = <<"A", "&">> /\ pi = 7 /\ fs = OldFiles
  /\ verdict.v = << downloads_dir \o <<"/","A","a","n","d">>,
                    <<"c","a","m","p","u","s","_","i","n","f","o",".","h","t","m","l">> >>

\* name contains query as a substring when letter case is ignored
ContainsIgnoringCase(name, query) ==
  \E k \in 0..(Len(name) - Len(query)) :
    Lower(SubSeq(name, k + 1, k + Len(query))) = Lower(query)

\* the catalog positions whose name contains the query
Hits(universities, query) ==
  { i \in DOMAIN universities : ContainsIgnoringCase(universities[i].name, query) }

\* C16: find_university_by_name returns the catalog entry with the smallest
\* position among those whose name contains the query as a case-insensitive
\* substring, returns None when there is none, and leaves the catalog as it
\* was loaded
C16_FirstMatchInCatalogOrder ==
  [][ bpc = "find" =>
        /\ catalog' = catalog
        /\ IF Hits(catalog, university_name) = {}
           THEN verdict'.v = [k |-> "none"]
           ELSE \E i \in Hits(catalog, university_name) :
                  /\ \A j \in Hits(catalog, university_name) : i <= j
                  /\ verdict'.v = [k |-> "found", name |-> catalog[i].name,
                                   link |-> catalog[i].link]
    ]_vars

\* C16 happens: of three entries the second and the third contain the query
\* in another letter case, and the second one was returned
C16_Witness ==
  /\ bpc = "find" /\ verdict.k = "find"
  /\ Len(catalog) = 3
  /\ catalog[1].name = <<"c">> /\ catalog[2].name = <<"B"," ","c">>
  /\ catalog[3].name = <<"A","b">>
  /\ university_name = <<"b">>
  /\ verdict.v = [k |-> "found", name |-> <<"B"," ","c">>, link |-> EntryLink(2)]

\* how often e occurs in a log
Count(log, e) == Cardinality({ i \in DOMAIN log : log[i] = e })

\* what a step added to the log of the current page call
Added == SubSeq(plog', Len(plog) + 1, Len(plog'))

\* C17: a pass of the error loop of download_university_page that ends in a
\* retry happens only while fewer than R retries were used (R the retries
\* override of the page type, 3 by default); it navigates once, then sleeps,
\* quits the browser and starts a new one, and leaves the loop at the same
\* page of the same university with one more retry counted; the loop never
\* navigates more than R+1 times; a page is given up for exhausted retries
\* only after R retries and R+1 navigations, and then no file is written and
\* no path returned; the loop is left for the content step only with a page
\* that is not classified as an error, and otherwise only by a permanent
\* error or a failed navigation
C17_TransientErrorRetry ==
  [][ pc = "fetch" =>
        /\ Count(plog, "navigate") = retry_count
        /\ retry_count <= max_retries(PAGE_TYPES[pi])
        /\ Count(Added, "navigate") <= 1
        /\ \/ pc' \in {"fetch", "content"}
           \/ /\ outcome'.pi = pi
              /\ outcome'.why \in {"retries_exhausted", "permanent", "nav_failed",
                                   "driver_failed"}
        /\ pc' = "fetch" =>
             /\ retry_count < max_retries(PAGE_TYPES[pi])
             /\ retry_count' = retry_count + 1
             /\ pi' = pi /\ university_info' = university_info
             /\ Count(Added, "navigate") = 1 /\ Count(Added, "sleep") = 1
             /\ \E i \in 1..(Len(Added) - 1) :
                  /\ Added[i] = "sleep" /\ Added[i + 1] = "quit"
                  /\ i > 1 /\ Added[i - 1] = "nav"
                  /\ \A j \in 1..(i - 1) : Added[j] \in {"navigate", "start", "quit", "nav"}
                  /\ \A j \in (i + 2)..Len(Added) : Added[j] \in {"start", "quit"}
                  /\ driver' => (i + 2 <= Len(Added) /\ Added[Len(Added)] = "start")
             /\ fs' = fs /\ wlog' = wlog /\ downloaded_files' = downloaded_files
        /\ outcome' = [pi |-> pi, why |-> "retries_exhausted"] =>
             /\ retry_count = max_retries(PAGE_TYPES[pi])
             /\ Count(plog', "navigate") = max_retries(PAGE_TYPES[pi]) + 1
             /\ Count(plog', "sleep") = max_retries(PAGE_TYPES[pi])
             /\ fs' = fs /\ wlog' = wlog /\ downloaded_files' = downloaded_files
        /\ pc' = "content" =>
             ~is_error_response(get_error_info(TRUE, page'.status, page'.url, page'.html))
    ]_vars

\* C17 happens: the applying page answered 429 four times, with three
\* restarts in between, and was given up without a file
C17_Witness ==
  /\ outcome = [pi |-> 3, why |-> "retries_exhausted"]
  /\ pc = "enter" /\ pi = 4
  /\ oddKind = [k |-> "status", status |-> 429]
  /\ Count(plog, "navigate") = DefaultRetries + 1
  /\ Count(plog, "sleep") = DefaultRetries
  /\ Count(plog, "start") = DefaultRetries
  /\ \A i \in DOMAIN wlog : wlog[i].pi # 3

\* the page the site answers with for the page type being processed, and
\* its classification when the status probe answers truly
Loaded == SitePage(KindOf(oddSet, oddKind, pi), university_info.link, pi, sess)
InfoLoaded == get_error_info(TRUE, Loaded.status, Loaded.url, Loaded.html)

SameCall(log, i, j) == \A k \in (i + 1)..j : log[k] # "navigate"

\* the GETs issued by the call of navigate_to entered at position i of a log
GetsOfCall(log, i) ==
  { j \in (i + 1)..Len(log) : log[j] = "nav" /\ SameCall(log, i, j) }

\* C19 as stated: between two GETs of one call of navigate_to the browser is
\* started anew, and no call issues more than navigate_retry_count+1 GETs
C19_RestartBetweenGets ==
  /\ \A i, j \in DOMAIN plog :
       (i < j /\ plog[i] = "nav" /\ plog[j] = "nav" /\ SameCall(plog, i, j))
       => \E k \in (i + 1)..(j - 1) : plog[k] = "start"
  /\ \A i \in DOMAIN plog :
       plog[i] = "navigate" =>
         Cardinality(GetsOfCall(plog, i)) <= navigate_retry_count + 1

\* C19 happens: the GET of the applying page timed out, was repeated at once
\* on the same browser, with no quit and no start in between, and timed out
\* again; navigate_to reported failure and the page was given up
C19_Witness ==
  /\ oddKind.k = "unreachable" /\ oddSet = {3, 4}
  /\ outcome = [pi |-> 3, why |-> "nav_failed"]
  /\ pc = "enter" /\ pi = 4 /\ driver
  /\ plog = <<"navigate", "nav", "nav", "wait_skip">>
  /\ Count(plog, "nav") = navigate_retry_count + 1

\* the page the site answers with to the browser as the step leaves it
Reloaded == SitePage(KindOf(oddSet, oddKind, pi), university_info.link, pi, sess')

\* C20: on the first redirect mismatch of a page type other than main,
\* download_university_page applies the captured session again and fetches
\* the page URL once more: one call of navigate_to that issues a GET; when
\* the page fetched again matches the page type the call goes on to the
\* login check and the save, and when it is still mismatched the page type
\* is skipped without a file; a second mismatch is never retried
C20_RedirectRetryRefetches ==
  [][ (/\ pc = "redirect" /\ PAGE_TYPES[pi] # <<>>
       /\ _redirected_to_main(current_url, html_content, PAGE_TYPES[pi]))
      => IF redirect_retry_left > 0
         THEN /\ (captured /\ driver) => Count(Added, "apply") = 1
              /\ Count(Added, "navigate") = 1
              /\ Count(Added, "nav") \in 1..(navigate_retry_count + 1)
              /\ (/\ faults' = faults
                  /\ ~_redirected_to_main(Reloaded.url, Reloaded.html, PAGE_TYPES[pi]))
                 => (pc' = "login" /\ html_content' = Reloaded.html)
              /\ pc' # "login" =>
                   (fs' = fs /\ wlog' = wlog /\ downloaded_files' = downloaded_files)
         ELSE /\ outcome' = [pi |-> pi, why |-> "redirect"]
              /\ Added = <<>> /\ fs' = fs /\ wlog' = wlog
    ]_vars

\* C20 happens: the applying page came back as the main page, the session
\* was applied again, navigate_to was called a second time and issued no
\* GET, and the page type was skipped
C20_Witness ==
  /\ oddKind.k \in {"paywall", "to_main"} /\ oddSet = {3, 4} /\ captured
  /\ outcome = [pi |-> 3, why |-> "redirect"]
  /\ pc = "enter" /\ pi = 4 /\ driver /\ sess
  /\ plog = <<"navigate", "nav", "source", "apply", "navigate", "wait_skip">>
  /\ \A i \in DOMAIN wlog : wlog[i].pi # 3

\* the positions of the session-application attempts in a log
Attempts(log) == { i \in DOMAIN log : log[i] = "attempt" }

\* whether a browser is running at position i of a log that began without one
LiveAt(log, i) ==
  LET marks == { k \in 1..(i - 1) : log[k] \in {"start", "quit"} }
  IN marks # {} /\ log[CHOOSE k \in marks : \A m \in marks : m <= k] = "start"

\* the position of the last session-application attempt in a log, 0 if none
LastAttempt(log) ==
  IF Attempts(log) = {} THEN 0
  ELSE CHOOSE i \in Attempts(log) : \A j \in Attempts(log) : j <= i

\* what a log holds after its last session-application attempt
AfterLastAttempt(log) == SubSeq(log, LastAttempt(log) + 1, Len(log))

\* C21: the session application at the start of a university is bounded and
\* never aborts the call: the step that starts the browser makes at most 3
\* apply attempts, between two attempts the running browser is quit and a
\* browser is started, a failed last attempt is followed by one more restart
\* (which may itself fail and leave no browser), and the step ends at the
\* first page type of the page-type loop (or, when the browser could not
\* even be started before the first attempt, with the list returned), never
\* with an exception
C21_SessionApplicationBounded ==
  [][ (pc = "open") =>
        ( /\ \/ pc' = "enter" /\ pi' = 1
             \/ /\ pc' = "ret" /\ ret'.k = "return"
                /\ outcome'.why = "driver_failed"
                /\ Attempts(Added) = {}
          /\ Cardinality(Attempts(Added)) <= 3
          /\ \A i, j \in Attempts(Added) :
               i < j => /\ \E r \in (i + 1)..(j - 1) : Added[r] = "start"
                        /\ LiveAt(Added, i) => Added[i + 1] = "quit"
          /\ \/ AfterLastAttempt(Added) \in { << >>, <<"apply">> }
             \/ /\ LiveAt(Added, LastAttempt(Added)) => AfterLastAttempt(Added)[1] = "quit"
                /\ \/ Count(AfterLastAttempt(Added), "start") >= 1
                   \/ ~driver' ) ]_vars

\* C21 witness: all three attempts failed, the browser was restarted after
\* each of them, and the page-type loop is at its first page type with a
\* running browser that carries no session
C21_Witness ==
  /\ pc = "enter" /\ pi = 1 /\ driver /\ ~sess
  /\ Cardinality(Attempts(plog)) = 3
  /\ AfterLastAttempt(plog) = <<"quit", "start">>

\* C22: login verification is best-effort and bounded: on a fetched page
\* that does not look logged in, the login step applies the session at most
\* once and fetches the page again at most once, and it goes on to
\* truncation and save with HTML it has: the re-fetched HTML when that is
\* non-empty, otherwise the HTML fetched originally
C22_LoginRecheckKeepsHtml ==
  [][ (pc = "login" /\ ~_check_login_status(html_content)) =>
        ( /\ Count(Added, "apply") <= 1
          /\ Count(Added, "navigate") <= 1
          /\ pc' = "save" =>
               \/ html_content' = html_content
               \/ html_content' \notin {HtmlNone, << >>} ) ]_vars

\* C22 witness: after the login step the save step is entered with no HTML
\* at all, the re-fetch having replaced the HTML fetched originally
C22_Witness ==
  /\ pc = "save"
  /\ html_content \in {HtmlNone, << >>}

\* C23: empty content is a failure: the content step reads the page source
\* at most 3 times (the first attempt and max_content_retries more); it
\* goes on to the redirect check only with non-empty HTML, and otherwise,
\* after 3 empty or unavailable reads, the page download returns None
\* without writing a file; a page whose rendered HTML is empty always ends
\* this way
C23_EmptyContentFails ==
  [][ (pc = "content") =>
        ( /\ Count(Added, "source") \in 1..(max_content_retries + 1)
          /\ \/ pc' = "redirect" /\ ~Falsy(html_content')
             \/ /\ outcome' = [pi |-> pi, why |-> "no_content"]
                /\ Count(Added, "source") = max_content_retries + 1
                /\ fs' = fs /\ wlog' = wlog
                /\ downloaded_files' = downloaded_files
          /\ (driver /\ Falsy(page.html)) => outcome'.why = "no_content" ) ]_vars

\* C23 witness: the applying page came back empty three times, the download
\* returned None, nothing was written for it and the loop is at the next
\* page type
C23_Witness ==
  /\ pc = "enter" /\ pi = 4
  /\ outcome = [pi |-> 3, why |-> "no_content"]
  /\ Count(plog, "source") = 3
  /\ FilePath(university_info.name, PAGE_TYPES[3]) \notin DOMAIN fs

\* what a log holds after its last pause before a retry
AfterSleep(log) ==
  LET sleeps == { i \in DOMAIN log : log[i] = "sleep" }
  IN IF sleeps = {} THEN << >>
     ELSE SubSeq(log, (CHOOSE i \in sleeps : \A j \in sleeps : j <= i) + 1, Len(log))

\* C24: restart_chrome is bounded: the restart that follows the pause of a
\* transient-error retry quits at most one driver and starts at most one
\* new driver, also when the new browser fails its health probe
C24_RestartStartsOneDriver ==
  [][ (pc = "fetch") =>
        ( /\ Count(AfterSleep(Added), "quit") <= 1
          /\ Count(AfterSleep(Added), "start") <= 1 ) ]_vars

\* C24 witness: one restart_chrome call has started a second browser after
\* the first one it started failed the health probe
C24_Witness ==
  /\ pc = "fetch" /\ retry_count > 0
  /\ AfterSleep(plog) = <<"quit", "start", "quit", "start">>

\* the browser events of one step: PageEnter starts a new log, every other
\* step appends to the log
StepLog == IF pc = "enter" THEN plog' ELSE Added

\* whether a browser is running just before position i of a step's log,
\* given whether one was running when the step began
LiveBefore(live, log, i) ==
  LET marks == { k \in 1..(i - 1) : log[k] \in {"start", "quit"} }
  IN IF marks = {} THEN live
     ELSE log[CHOOSE k \in marks : \A m \in marks : m <= k] = "start"

SavedHashes == { ContentHash(wlog[j].text) : j \in { k \in DOMAIN wlog : wlog[k].ok } }

\* C27: the content-hash set is scoped to one university: it is empty when
\* the page-type loop begins, and a page is rejected as a duplicate only
\* when a page saved earlier for the same university has the same content
C27_HashesScopedToUniversity ==
  [][ /\ (pc = "open" /\ pc' = "enter") => hashes' = {}
      /\ (pc = "save") =>
           ( /\ hashes = SavedHashes
             /\ outcome' = [pi |-> pi, why |-> "duplicate"] =>
                  \E j \in DOMAIN wlog :
                    /\ wlog[j].ok /\ wlog[j].pi < pi
                    /\ DirName(wlog[j].path) =
                         generate_filename_and_path(university_info.name, <<>>)[1]
                    /\ wlog[j].text = TruncateAtWidget(truncate_at_widget, html_content) )
    ]_vars

\* C27 witness: the second university of a batch is at the start of its
\* page-type loop with an empty hash set after pages were saved for the
\* first one
C27_Witness ==
  /\ pc = "enter" /\ pi = 1 /\ bi = 2
  /\ prev.saved > 0
  /\ hashes = {} /\ wlog = << >>

\* C28: with a captured session, a page is saved only from a browser to
\* which the session has been applied since its most recent start, and the
\* restart of a transient-error retry is followed by a session application
\* before the page is fetched again
C28_SessionAppliedBeforeFetch ==
  [][ (captured /\ preserve_login_from_existing /\ ~use_existing_chrome) =>
        ( /\ (pc = "save" /\ outcome' = [pi |-> pi, why |-> "saved"]) => sess
          /\ (pc = "fetch" /\ Count(plog, "sleep") > 0 /\ Count(Added, "nav") > 0) =>
               \/ Count(AfterSleep(plog), "apply") > 0
               \/ Added[1] = "apply" ) ]_vars

\* C28 witness: after the restart of a transient-error retry the page has
\* been fetched again on a browser that carries no session although one
\* was captured
C28_Witness ==
  /\ captured /\ pc = "content" /\ retry_count > 0
  /\ driver /\ ~sess
  /\ Count(AfterSleep(plog), "nav") > 0
  /\ Count(AfterSleep(plog), "apply") = 0

\* C29: HTML saved under a non-main filename comes from a fetch that passed
\* the error classification and the redirect-to-main check: the HTML that
\* the login step hands to the save step of a non-main page type is the
\* HTML that came out of the redirect check, never HTML of a later fetch
C29_SavedHtmlWasChecked ==
  [][ (pc = "login" /\ PAGE_TYPES[pi] # << >> /\ pc' = "save") =>
        html_content' = html_content ]_vars

\* C29 witness: the save step of a non-main page type holds the HTML of the
\* re-fetch that followed the login-triggered restart; the status and the
\* URL of that re-fetch were never looked at
C29_Witness ==
  /\ pc = "save" /\ PAGE_TYPES[pi] # << >>
  /\ plog = <<"navigate", "nav", "source", "quit", "start", "apply",
              "navigate", "nav", "source">>
  /\ html_content = page.html
  /\ _check_login_status(html_content)

\* the file a download_university_page call for the current page type writes
TargetPath == FilePath(university_info.name, PAGE_TYPES[pi])

\* C30: a failed page download leaves the file system untouched for its
\* target: whenever download_university_page returns None, the file at the
\* derived path exists afterwards exactly when it existed before, with the
\* content it had
C30_FailedDownloadLeavesFile ==
  [][ (/\ pc \in {"enter", "fetch", "content", "redirect", "login", "save"}
       /\ outcome' = [pi |-> pi, why |-> outcome'.why]
       /\ outcome'.why # "saved"
       /\ (pc' = "ret" \/ pi' = pi + 1)) =>
        ( /\ (TargetPath \in DOMAIN fs') = (TargetPath \in DOMAIN fs)
          /\ TargetPath \in DOMAIN fs => fs'[TargetPath] = fs[TargetPath] ) ]_vars

\* C30 witness: a page download has returned None after the login re-fetch
\* gave no content, and its target is now an empty file
C30_Witness ==
  /\ outcome.why = "write_failed"
  /\ wlog # << >>
  /\ ~wlog[Len(wlog)].ok
  /\ wlog[Len(wlog)].text = HtmlNone
  /\ wlog[Len(wlog)].path \in DOMAIN fs
  /\ fs[wlog[Len(wlog)].path] = << >>

\* C31: page types are processed in the fixed order main, overall-rankings,
\* applying, paying, academics, student-life, campus-info: the loop starts
\* at the main page and only ever moves to the next page type; and the main
\* page gates the rest: when download_university_page returns None for it,
\* the call returns the empty list at once and no other page type is fetched
C31_MainPageGatesTheRest ==
  [][ /\ (pc = "open" /\ pc' = "enter") => (pi' = 1 /\ PAGE_TYPES[pi'] = << >>)
      /\ (pc \in {"enter", "fetch", "content", "redirect", "login", "save"}) =>
           ( /\ pi' \in {pi, pi + 1}
             /\ pi' = pi + 1 => (pc' = "enter" /\ outcome'.pi = pi)
             /\ \A j \in DOMAIN wlog' : wlog'[j].pi <= pi
             /\ (/\ pi = 1 /\ outcome' # outcome
                 /\ outcome'.why # "saved") =>
                  ( /\ pc' = "ret" /\ pi' = 1
                    /\ ret' = [k |-> "return", files |-> << >>]
                    /\ Count(Added, "navigate") <= 1 ) ) ]_vars

\* C31 witness: the main page of a found university was answered with a
\* permanent error; download_all_pages has returned the empty list and
\* nothing was fetched or written for any other page type
C31_Witness ==
  /\ pc = "ret" /\ pi = 1
  /\ outcome = [pi |-> 1, why |-> "permanent"]
  /\ ret = [k |-> "return", files |-> << >>]
  /\ wlog = << >>
  /\ Count(plog, "navigate") = 1

\* C32: pacing: a page download that is not the last one of its university
\* is followed by one pacing delay, the last one and an aborting main page
\* by none, and the delay taken after a saved page is strictly longer than
\* the delay taken after a skipped one
C32_LongerDelayAfterSave ==
  [][ (/\ pc \in {"enter", "fetch", "content", "redirect", "login", "save"}
       /\ outcome' = [pi |-> pi, why |-> outcome'.why]
       /\ (pc' = "ret" \/ pi' = pi + 1)) =>
        ( /\ pi' = pi + 1 =>
               /\ Count(Added, "wait_success") + Count(Added, "wait_skip") = 1
               /\ plog'[Len(plog')] =
                    (IF outcome'.why = "saved" THEN "wait_success" ELSE "wait_skip")
          /\ pc' = "ret" =>
               Count(Added, "wait_success") + Count(Added, "wait_skip") = 0
          /\ wait_seconds(<<"f">>) > wait_seconds(NoPath) ) ]_vars

\* C32 witness: a page has been saved, the pacing delay for a saved page
\* has been taken before the next page type, and it is as long as the
\* delay for a skipped page
C32_Witness ==
  /\ pc = "enter" /\ pi > 1
  /\ outcome = [pi |-> pi - 1, why |-> "saved"]
  /\ plog # << >> /\ plog[Len(plog)] = "wait_success"
  /\ wait_seconds(wlog[Len(wlog)].path) = wait_seconds(NoPath)

\* the strategies that come before strategy number i
Before(i) == { Strategies[j] : j \in 1..(i - 1) }

\* C33: create_driver tries the strategies in the order system PATH,
\* auto-downloaded binary, fallback install path: it invokes exactly the
\* strategies up to the first one that works and returns that one's driver,
\* and it returns None exactly when none of the three works
C33_FirstWorkingStrategy ==
  verdict.k = "create_driver" =>
    /\ Strategies = <<"system", "webdriver_manager", "homebrew">>
    /\ IF machine.works = {}
       THEN verdict.v = [driver |-> "None", tried |-> Strategies]
       ELSE \E i \in DOMAIN Strategies :
              /\ Strategies[i] \in machine.works
              /\ Before(i) \cap machine.works = {}
              /\ verdict.v = [driver |-> Strategies[i], tried |-> SubSeq(Strategies, 1, i)]

\* C33 witness: the system driver does not start, the auto-downloaded one
\* does and is returned, and the fallback path was not tried although it
\* would have worked too
C33_Witness ==
  /\ verdict.k = "create_driver"
  /\ machine.works = {"webdriver_manager", "homebrew"}
  /\ verdict.v = [driver |-> "webdriver_manager", tried |-> <<"system", "webdriver_manager">>]

\* whether read `kind` of origin i yields entries on the machine
Readable(i, kind) ==
  /\ machine.connect /\ machine.at[i].visit
  /\ machine.at[i][kind].ok /\ machine.at[i][kind].has

\* C34: capture_session_from_existing visits every origin in turn; what an
\* origin yields is collected whatever happens at the other origins or at
\* the other reads of the same origin, nothing else is collected, and the
\* call returns True exactly when at least one cookie, localStorage entry
\* or sessionStorage entry was collected
C34_CaptureSurvivesOriginFailures ==
  verdict.k = "capture" =>
    /\ machine.connect => verdict.v.got.visited = <<1, 2>>
    /\ \A i \in DOMAIN USNEWS_ORIGINS :
         /\ Readable(i, "cookies") <=> HeldAt(i).cookies[1] \in Range(verdict.v.got.cookies)
         /\ Readable(i, "local") <=> <<USNEWS_ORIGINS[i], "1">> \in verdict.v.got.local
         /\ Readable(i, "session") <=> <<USNEWS_ORIGINS[i], "1">> \in verdict.v.got.session
    /\ Len(verdict.v.got.cookies) <= Len(USNEWS_ORIGINS)
    /\ verdict.v.ok <=> ( \/ verdict.v.got.cookies # << >>
                          \/ verdict.v.got.local # {}
                          \/ verdict.v.got.session # {} )
    /\ verdict.v.ok <=> \E i \in DOMAIN USNEWS_ORIGINS :
                          \E kind \in {"cookies", "local", "session"} : Readable(i, kind)

\* C34 witness: the first origin could not be visited and the cookie read of
\* the second one raised, yet the localStorage entries of the second origin
\* were collected and the capture returned True
C34_Witness ==
  /\ verdict.k = "capture" /\ machine.connect
  /\ ~machine.at[1].visit
  /\ machine.at[2].visit /\ ~machine.at[2].cookies.ok
  /\ verdict.v.ok
  /\ verdict.v.got.cookies = << >>
  /\ verdict.v.got.local = HeldAt(2).storage

\* C35: in every batch driver an interrupt that arrives while university i is
\* being processed is caught by the batch loop: the run goes on to its
\* summary, the browser of university i is closed, and nothing is started
\* afterwards.
C35_InterruptCaughtInEveryBatchDriver ==
  [][ /\ (batchKind \in {"main_scraper", "main"} /\ bpc = "wait"
              /\ bpc' \notin {"wait", "loop", "done"})
         => (bpc' = "interrupted" /\ driver' = FALSE)
      /\ (bpc \in {"interrupted", "aborted"}) => FALSE ]_vars

\* C35: main.py's batch loop was interrupted during its second university; the
\* run ended without a summary
C35_Witness ==
  /\ batchKind = "main"
  /\ bpc = "aborted"
  /\ bi = 2
  /\ driver = FALSE
  /\ "quit" \in acts

\* C36: an apply attempt at the start of a university counts as successful
\* only if something was applied: whenever the browser has been started for a
\* university, every way _apply_login_session_with_retries can report the
\* session as applied ends in a browser that carries the session
C36_AppliedOnlyWhenSomethingApplied ==
  (pc = "open") =>
    \A s \in setup_driver(B) :
      ~s.raised =>
        \A r \in _apply_login_session_with_retries(s.b, 0, 3) : r.ok => r.b.sess

\* C36: nothing was captured, the one apply attempt applied nothing, and the
\* page-type loop was entered without a restart and without a session
C36_Witness ==
  /\ pc = "enter" /\ pi = 1
  /\ ~captured
  /\ driver /\ ~sess
  /\ plog = <<"start", "attempt">>

\* the timeout the navigation of page type pidx is meant to run under
OwnTimeout(pidx) ==
  IF pidx \in DOMAIN timeouts.overrides THEN timeouts.overrides[pidx] ELSE page_load_timeout

\* C37 as stated: a timeout override is strictly temporary. After the
\* navigation of a page type, however it ended, config.page_load_timeout has
\* the value it had before, and the GETs of every page type ran under that
\* page type's own timeout; after a session apply that visited the origins
\* the driver's page-load timeout is config.page_load_timeout.
C37_OverrideStrictlyTemporary ==
  [][ /\ timeouts'.config = timeouts.config
      /\ (pi' # pi) => (verdict'.used \in {NoTimeout, OwnTimeout(pi)})
      /\ (pi' = pi /\ verdict'.visited)
           => (timeouts'.driver_timeout = timeouts.config) ]_vars

\* C37, amended: config.page_load_timeout is the same after every navigation
\* and every session apply, and the GETs of every page type run under that
\* page type's own timeout; a session apply that visited the origins leaves
\* the driver with config.page_load_timeout when the restoring call was
\* accepted by the driver, and otherwise with origin_nav_timeout or with the
\* timeout the driver had before the apply.
C37_OverrideTemporaryRestoreBestEffort ==
  [][ /\ timeouts'.config = timeouts.config
      /\ (pi' # pi) => (verdict'.used \in {NoTimeout, OwnTimeout(pi)})
      /\ (pi' = pi /\ verdict'.visited) =>
           IF verdict'.restored
           THEN timeouts'.driver_timeout = timeouts.config
           ELSE timeouts'.driver_timeout \in {origin_nav_timeout, timeouts.driver_timeout}
    ]_vars

\* C37 witness: the second page type was navigated under its override of 40
\* seconds, and a session apply before the third page type put the driver
\* back to config.page_load_timeout, which is 20 as at the start
C37_Witness ==
  /\ timeouts.k = "followed"
  /\ 2 \in DOMAIN timeouts.overrides /\ timeouts.overrides[2] = 40
  /\ pi = 3
  /\ verdict.k = "apply" /\ verdict.visited /\ verdict.restored
  /\ timeouts.config = page_load_timeout
  /\ timeouts.driver_timeout = page_load_timeout

====
